---------------------------- MODULE Spec2Model ----------------------------
(***************************************************************************)
(* A model of the indexable skip list (skiplist.go) and of the sorted set  *)
(* built on it (zset.go).                                                  *)
(*                                                                         *)
(* Memory is modelled explicitly: a node is an entry of the heap s.nodes,  *)
(* a pointer is a node id, the nil pointer is Nil.  A slice of levels is a *)
(* function over 0..n-1, so that indices are those of the source.  The     *)
(* uint32 spans and ranks are kept as unbounded integers.                  *)
(***************************************************************************)
EXTENDS Integers, Sequences, FiniteSets, TLC

(***************************************************************************)
(* Bounds of the model.                                                    *)
(***************************************************************************)
\* int keys of the plain engine are 1..MaxKey
MaxKey == 3
\* the MaxLevel a new list is given (32 in the source, scaled down); the
\* public field SkipList.MaxLevel is set to values in 0..DefaultMaxLevel
DefaultMaxLevel == 2
\* FillBySortedSlice is called with at most MaxFill elements
MaxFill == 2
\* the application keys of the sorted set are 1..MaxAppKey
MaxAppKey == 2
\* its scores are 1..MaxScore
MaxScore == 2
\* the pool hands out cells while its counter is below MaxCounter
MaxCounter == 4

Keys == 1..MaxKey
Vals == {11, 12}
AppKeys == 1..MaxAppKey
Scores == 1..MaxScore

\* the nil pointer, the nil interface value
Nil == -1
\* the id of the node s.header points to
Header == 0

VARIABLES
    sl,     \* the *SkipList of the plain engine
    it,     \* the cursor the caller holds on sl, or NoIter
    ret,    \* what the last call returned
    fatal,  \* the panic that ended the program, or ""
    amap,   \* (ghost) the abstract map: key -> last value Set, Nil when absent
    zs,     \* the *ZSet: key2Score, sl, pool
    cells,  \* the zsetScore objects in memory: cell id -> (score, counter)
    snap,   \* the slice the caller got from Marshal, and how far its round trip is
    abs     \* (ghost) the abstract sorted set

evars == <<sl, it, amap>>

zvars == <<zs, cells, snap, abs>>

vars == <<sl, it, ret, fatal, amap, zs, cells, snap, abs>>

(***************************************************************************)
(* Helpers on slices.                                                      *)
(***************************************************************************)
len(f) == Cardinality(DOMAIN f)

maxInt(x, y) == IF x > y THEN x ELSE y

(***************************************************************************)
(* The comparators.  cx stands for the closure stored in s.lessThan        *)
(* together with the memory it reads.                                      *)
(***************************************************************************)
IntCx == [kind |-> "int"]

\* a comparator a caller hands to NewCustomMap: int keys compared by their
\* halves, so that 2 and 3 are neither less than the other
HalfCx == [kind |-> "half"]

\* the comparator NewCustomZSet builds from scoreLessThan: the keys are
\* pointers to the cells of mem
ZCx(scoreLessThan, mem) == [kind |-> "zset", scoreLessThan |-> scoreLessThan, cells |-> mem]

\* the scoreLessThan functions the sorted set is built with: l < r, l > r
ScoreOrders == {"asc", "desc"}

applyScoreLessThan(scoreLessThan, l, r) ==
    IF scoreLessThan = "asc" THEN l < r ELSE l > r

lessThan(cx, l, r) ==
    IF cx.kind = "int" THEN l < r
    ELSE IF cx.kind = "half" THEN (l \div 2) < (r \div 2)
    ELSE LET lzs == cx.cells[l]
             rzs == cx.cells[r]
         IN  IF applyScoreLessThan(cx.scoreLessThan, lzs.score, rzs.score) THEN TRUE
             ELSE IF lzs.score = rzs.score /\ lzs.counter < rzs.counter THEN TRUE
             ELSE FALSE

(***************************************************************************)
(* Nodes and the list.                                                     *)
(***************************************************************************)
emptyLevel == [forward |-> Nil, span |-> 0]

headerNode == [levels |-> (0 :> emptyLevel), backward |-> Nil, key |-> Nil, value |-> Nil]

NewCustomMap == [nodes |-> (Header :> headerNode), footer |-> Nil, length |-> 0,
                 MaxLevel |-> DefaultMaxLevel]

next(nodes, n) ==
    IF len(nodes[n].levels) = 0 THEN Nil ELSE nodes[n].levels[0].forward

previous(nodes, n) == nodes[n].backward

hasNext(nodes, n) == next(nodes, n) /= Nil

hasPrevious(nodes, n) == previous(nodes, n) /= Nil

SkipListLen(s) == s.length

level(s) == len(s.nodes[Header].levels) - 1

effectiveMaxLevel(s) == maxInt(level(s), s.MaxLevel)

\* the levels randomLevel can return: the loop may stop at any n, and stops
\* at effectiveMaxLevel at the latest
randomLevels(s) == 0..effectiveMaxLevel(s)

ClearOp(s) == [s EXCEPT !.nodes = (Header :> headerNode), !.footer = Nil, !.length = 0]

\* the inner loop of getLowerBound, searchForDelete: advance at level i
\* while the next key is less than key
RECURSIVE walk(_, _, _, _, _)
walk(cx, nodes, current, i, key) ==
    LET f == nodes[current].levels[i].forward
    IN  IF f /= Nil /\ lessThan(cx, nodes[f].key, key)
        THEN walk(cx, nodes, f, i, key)
        ELSE current

RECURSIVE lowerBoundFrom(_, _, _, _, _)
lowerBoundFrom(cx, nodes, current, i, key) ==
    IF i < 0 THEN next(nodes, current)
    ELSE LET c == walk(cx, nodes, current, i, key)
             f == nodes[c].levels[i].forward
         IN  IF f /= Nil /\ nodes[f].key = key
             THEN f
             ELSE lowerBoundFrom(cx, nodes, c, i - 1, key)

getLowerBound(cx, nodes, current, key) ==
    lowerBoundFrom(cx, nodes, current, len(nodes[current].levels) - 1, key)

Get(cx, s, key) ==
    LET candidate == getLowerBound(cx, s.nodes, Header, key)
    IN  IF candidate = Nil \/ s.nodes[candidate].key /= key
        THEN [value |-> Nil, ok |-> FALSE]
        ELSE [value |-> s.nodes[candidate].value, ok |-> TRUE]

\* (mutant of rankWalk) counts the nodes stepped on, not the spans crossed
RECURSIVE rankWalkHops(_, _, _, _, _, _)
rankWalkHops(cx, nodes, current, i, key, rank) ==
    LET f == nodes[current].levels[i].forward
    IN  IF f /= Nil /\ lessThan(cx, nodes[f].key, key)
        THEN rankWalkHops(cx, nodes, f, i, key, rank + 1)
        ELSE <<current, rank>>

RECURSIVE rankWalk(_, _, _, _, _, _)
rankWalk(cx, nodes, current, i, key, rank) ==
    LET f == nodes[current].levels[i].forward
    IN  IF f /= Nil /\ lessThan(cx, nodes[f].key, key)
        THEN rankWalk(cx, nodes, f, i, key, rank + nodes[current].levels[i].span)
        ELSE <<current, rank>>

RECURSIVE rankLevels(_, _, _, _, _, _)
rankLevels(cx, nodes, current, i, key, rank) ==
    IF i < 0 THEN 0
    ELSE LET w == rankWalk(cx, nodes, current, i, key, rank)
             f == nodes[w[1]].levels[i].forward
         IN  IF f /= Nil /\ nodes[f].key = key
             THEN w[2] + nodes[w[1]].levels[i].span
             ELSE rankLevels(cx, nodes, w[1], i - 1, key, w[2])

Rank(cx, s, key) == rankLevels(cx, s.nodes, Header, level(s), key, 0)

\* (mutant of elemWalk) walks on while traversed+span <= rank
RECURSIVE elemWalkInclusive(_, _, _, _, _)
elemWalkInclusive(nodes, current, i, rank, traversed) ==
    IF nodes[current].levels[i].forward /= Nil
       /\ traversed + nodes[current].levels[i].span <= rank
    THEN elemWalkInclusive(nodes, nodes[current].levels[i].forward, i, rank,
                           traversed + nodes[current].levels[i].span)
    ELSE <<current, traversed>>

RECURSIVE elemWalk(_, _, _, _, _)
elemWalk(nodes, current, i, rank, traversed) ==
    IF nodes[current].levels[i].forward /= Nil
       /\ traversed + nodes[current].levels[i].span < rank
    THEN elemWalk(nodes, nodes[current].levels[i].forward, i, rank,
                  traversed + nodes[current].levels[i].span)
    ELSE <<current, traversed>>

RECURSIVE elemFrom(_, _, _, _, _)
elemFrom(nodes, current, i, rank, traversed) ==
    IF i < 0 THEN Nil
    ELSE LET w == elemWalk(nodes, current, i, rank, traversed)
             l == nodes[w[1]].levels[i]
         IN  IF l.forward /= Nil /\ w[2] + l.span = rank
             THEN l.forward
             ELSE elemFrom(nodes, w[1], i - 1, rank, w[2])

\* the node the returned cursor is on, Nil for a nil Iterator
GetElemByRank(s, rank) == elemFrom(s.nodes, Header, level(s), rank, 0)

(***************************************************************************)
(* Set.                                                                    *)
(***************************************************************************)
\* (mutant of insertWalk) the comparison with its arguments swapped
RECURSIVE insertWalkSwapped(_, _, _, _, _, _)
insertWalkSwapped(cx, nodes, current, i, key, rank) ==
    LET f == nodes[current].levels[i].forward
    IN  IF f /= Nil /\ lessThan(cx, key, nodes[f].key)
        THEN insertWalkSwapped(cx, nodes, f, i, key, rank + nodes[current].levels[i].span)
        ELSE <<current, rank>>

RECURSIVE insertWalk(_, _, _, _, _, _)
insertWalk(cx, nodes, current, i, key, rank) ==
    LET f == nodes[current].levels[i].forward
    IN  IF f /= Nil /\ lessThan(cx, nodes[f].key, key)
        THEN insertWalk(cx, nodes, f, i, key, rank + nodes[current].levels[i].span)
        ELSE <<current, rank>>

RECURSIVE searchForInsertFrom(_, _, _, _, _, _, _)
searchForInsertFrom(cx, s, key, i, current, update, rank) ==
    IF i < 0
    THEN [candidate |-> next(s.nodes, current), update |-> update, rank |-> rank]
    ELSE LET r0 == IF i = level(s) THEN 0 ELSE rank[i + 1]
             w  == insertWalk(cx, s.nodes, current, i, key, r0)
             f  == s.nodes[w[1]].levels[i].forward
         IN  IF f /= Nil /\ s.nodes[f].key = key
             THEN [candidate |-> f, update |-> update,
                   rank |-> [rank EXCEPT ![i] = w[2]]]
             ELSE searchForInsertFrom(cx, s, key, i - 1, w[1],
                                      [update EXCEPT ![i] = w[1]],
                                      [rank EXCEPT ![i] = w[2]])

\* update and rank are made with s.level()+1 zero elements
searchForInsert(cx, s, key) ==
    searchForInsertFrom(cx, s, key, level(s), Header,
                        [i \in 0..level(s) |-> Nil], [i \in 0..level(s) |-> 0])

\* &node{...}: a pointer no live node has.  Which one the allocator hands
\* out cannot be observed; the model takes the key's own number when that
\* is free and the least free number otherwise.
newNodeId(nodes, key) ==
    IF key > 0 /\ key \notin DOMAIN nodes THEN key
    ELSE CHOOSE n \in 1..(len(nodes) + 1) :
             n \notin DOMAIN nodes /\ \A m \in 1..(n - 1) : m \in DOMAIN nodes

\* (mutant of extendHeader) the new levels are left with span 0
extendHeaderZeroSpan(s, newLevel) ==
    [i \in 0..maxInt(newLevel, level(s)) |->
        IF i <= level(s) THEN s.nodes[Header].levels[i]
        ELSE emptyLevel]

\* the header grown to newLevel: the new levels span the whole list
extendHeader(s, newLevel) ==
    [i \in 0..maxInt(newLevel, level(s)) |->
        IF i <= level(s) THEN s.nodes[Header].levels[i]
        ELSE [forward |-> Nil, span |-> s.length]]

\* (mutant of insertNode) the new node's backward is update[0], the header
\* included
insertNodeBackToHeader(cx, s, key, value, newLevel, sr) ==
    LET currentLevel == level(s)
        top    == maxInt(newLevel, currentLevel)
        update == [i \in 0..top |-> IF i <= currentLevel THEN sr.update[i] ELSE Header]
        rank   == [i \in 0..top |-> IF i <= currentLevel THEN sr.rank[i] ELSE 0]
        nodes0 == [s.nodes EXCEPT ![Header].levels = extendHeader(s, newLevel)]
        newNode == newNodeId(nodes0, key)
        prev   == update[0]
        created == [levels |-> [i \in 0..newLevel |->
                        [forward |-> nodes0[update[i]].levels[i].forward,
                         span |-> nodes0[update[i]].levels[i].span - (rank[0] - rank[i])]],
                    backward |-> prev,
                    key |-> key, value |-> value]
        nodes1 == [n \in DOMAIN nodes0 \cup {newNode} |->
                    IF n = newNode THEN created
                    ELSE [nodes0[n] EXCEPT !.levels =
                            [i \in DOMAIN nodes0[n].levels |->
                                IF i <= top /\ update[i] = n
                                THEN IF i <= newLevel
                                     THEN [forward |-> newNode,
                                           span |-> (rank[0] - rank[i]) + 1]
                                     ELSE [nodes0[n].levels[i] EXCEPT
                                             !.span = nodes0[n].levels[i].span + 1]
                                ELSE nodes0[n].levels[i]]]]
        fwd    == created.levels[0].forward
        nodes2 == IF fwd /= Nil /\ nodes1[fwd].backward /= newNode
                  THEN [nodes1 EXCEPT ![fwd].backward = newNode]
                  ELSE nodes1
        footer == IF s.footer = Nil \/ lessThan(cx, s.nodes[s.footer].key, key)
                  THEN newNode ELSE s.footer
    IN  [s EXCEPT !.nodes = nodes2, !.length = s.length + 1, !.footer = footer]

\* Set's insertion of a new node of level newLevel; sr is what
\* searchForInsert returned.  Iteration i of the two loops reads and writes
\* only update[i].levels[i] and newNode.levels[i], so the loops are written
\* as one pass over the heap.
insertNode(cx, s, key, value, newLevel, sr) ==
    LET currentLevel == level(s)
        top    == maxInt(newLevel, currentLevel)
        update == [i \in 0..top |-> IF i <= currentLevel THEN sr.update[i] ELSE Header]
        rank   == [i \in 0..top |-> IF i <= currentLevel THEN sr.rank[i] ELSE 0]
        nodes0 == [s.nodes EXCEPT ![Header].levels = extendHeader(s, newLevel)]
        newNode == newNodeId(nodes0, key)
        prev   == update[0]
        created == [levels |-> [i \in 0..newLevel |->
                        [forward |-> nodes0[update[i]].levels[i].forward,
                         span |-> nodes0[update[i]].levels[i].span - (rank[0] - rank[i])]],
                    backward |-> IF nodes0[prev].key /= Nil THEN prev ELSE Nil,
                    key |-> key, value |-> value]
        nodes1 == [n \in DOMAIN nodes0 \cup {newNode} |->
                    IF n = newNode THEN created
                    ELSE [nodes0[n] EXCEPT !.levels =
                            [i \in DOMAIN nodes0[n].levels |->
                                IF i <= top /\ update[i] = n
                                THEN IF i <= newLevel
                                     THEN [forward |-> newNode,
                                           span |-> (rank[0] - rank[i]) + 1]
                                     ELSE [nodes0[n].levels[i] EXCEPT
                                             !.span = nodes0[n].levels[i].span + 1]
                                ELSE nodes0[n].levels[i]]]]
        fwd    == created.levels[0].forward
        nodes2 == IF fwd /= Nil /\ nodes1[fwd].backward /= newNode
                  THEN [nodes1 EXCEPT ![fwd].backward = newNode]
                  ELSE nodes1
        footer == IF s.footer = Nil \/ lessThan(cx, s.nodes[s.footer].key, key)
                  THEN newNode ELSE s.footer
    IN  [s EXCEPT !.nodes = nodes2, !.length = s.length + 1, !.footer = footer]

\* (mutant of SetOp) an overwrite counts as one more element
SetOpCountsOverwrite(cx, s, key, value, rnd) ==
    IF key = Nil
    THEN [s |-> s, fatal |-> "goskiplist: nil keys are not supported"]
    ELSE LET sr == searchForInsert(cx, s, key)
         IN  IF sr.candidate /= Nil /\ s.nodes[sr.candidate].key = key
             THEN [s |-> [s EXCEPT !.nodes[sr.candidate].value = value,
                                   !.length = s.length + 1], fatal |-> ""]
             ELSE [s |-> insertNode(cx, s, key, value, rnd, sr), fatal |-> ""]

\* Set(key, value), where rnd is the level randomLevel returns if it is
\* called.  The result: the list after the call and the panic, if any.
SetOp(cx, s, key, value, rnd) ==
    IF key = Nil
    THEN [s |-> s, fatal |-> "goskiplist: nil keys are not supported"]
    ELSE LET sr == searchForInsert(cx, s, key)
         IN  IF sr.candidate /= Nil /\ s.nodes[sr.candidate].key = key
             THEN [s |-> [s EXCEPT !.nodes[sr.candidate].value = value], fatal |-> ""]
             ELSE [s |-> insertNode(cx, s, key, value, rnd, sr), fatal |-> ""]

(***************************************************************************)
(* Delete.                                                                 *)
(***************************************************************************)
RECURSIVE searchForDeleteFrom(_, _, _, _, _, _)
searchForDeleteFrom(cx, nodes, current, i, key, update) ==
    IF i < 0 THEN [candidate |-> next(nodes, current), update |-> update]
    ELSE LET c == walk(cx, nodes, current, i, key)
         IN  searchForDeleteFrom(cx, nodes, c, i - 1, key, [update EXCEPT ![i] = c])

searchForDelete(cx, nodes, current, key, update) ==
    searchForDeleteFrom(cx, nodes, current, len(nodes[current].levels) - 1, key, update)

\* make([]*node, length, capacity) panics when length > capacity
makeslicePanics(length, capacity) == length > capacity

\* (mutant of trimHeader) one trailing level at most is cut
trimHeaderOnce(levels) ==
    IF len(levels) - 1 > 0 /\ levels[len(levels) - 1].forward = Nil
    THEN [i \in 0..(len(levels) - 2) |-> levels[i]]
    ELSE levels

\* the header without its trailing levels that lead nowhere
RECURSIVE trimHeader(_)
trimHeader(levels) ==
    IF len(levels) - 1 > 0 /\ levels[len(levels) - 1].forward = Nil
    THEN trimHeader([i \in 0..(len(levels) - 2) |-> levels[i]])
    ELSE levels

\* Delete's removal of candidate.  Iteration i of the loop reads and writes
\* only update[i].levels[i], so the loop is written as one pass over the
\* heap.  The removed node is no longer referenced and leaves the heap.
removeNode(s, candidate, update) ==
    LET cand   == s.nodes[candidate]
        prev   == cand.backward
        footer == IF s.footer = candidate THEN prev ELSE s.footer
        nxt    == next(s.nodes, candidate)
        nodes1 == IF nxt /= Nil THEN [s.nodes EXCEPT ![nxt].backward = prev] ELSE s.nodes
        nodes2 == [n \in DOMAIN nodes1 |->
                    [nodes1[n] EXCEPT !.levels =
                        [i \in DOMAIN nodes1[n].levels |->
                            IF i <= level(s) /\ update[i] = n
                            THEN IF nodes1[n].levels[i].forward = candidate
                                 THEN [forward |-> cand.levels[i].forward,
                                       span |-> nodes1[n].levels[i].span
                                                + cand.levels[i].span - 1]
                                 ELSE [nodes1[n].levels[i] EXCEPT
                                         !.span = nodes1[n].levels[i].span - 1]
                            ELSE nodes1[n].levels[i]]]]
        nodes3 == [nodes2 EXCEPT ![Header].levels = trimHeader(nodes2[Header].levels)]
        nodes4 == [n \in DOMAIN nodes3 \ {candidate} |-> nodes3[n]]
    IN  [s EXCEPT !.nodes = nodes4, !.footer = footer, !.length = s.length - 1]

\* Delete(key): the list after the call, what it returns, and the panic, if any
DeleteOp(cx, s, key) ==
    IF key = Nil
    THEN [s |-> s, value |-> Nil, ok |-> FALSE,
          fatal |-> "goskiplist: nil keys are not supported"]
    ELSE IF makeslicePanics(level(s) + 1, effectiveMaxLevel(s))
    THEN [s |-> s, value |-> Nil, ok |-> FALSE,
          fatal |-> "runtime error: makeslice: cap out of range"]
    ELSE LET sr == searchForDelete(cx, s.nodes, Header, key, [i \in 0..level(s) |-> Nil])
             candidate == sr.candidate
         IN  IF candidate = Nil \/ s.nodes[candidate].key /= key
             THEN [s |-> s, value |-> Nil, ok |-> FALSE, fatal |-> ""]
             ELSE [s |-> removeNode(s, candidate, sr.update),
                   value |-> s.nodes[candidate].value, ok |-> TRUE, fatal |-> ""]

(***************************************************************************)
(* FillBySortedSlice.                                                      *)
(***************************************************************************)
\* (mutant of fillOne) an element equal to the one before it is let through
fillOneNonDescending(cx, s, update, pos, elem, newLevel) ==
    LET currentLevel == level(s)
        top     == maxInt(newLevel, currentLevel)
        nodes0  == [s.nodes EXCEPT ![Header].levels =
                      [i \in 0..top |->
                          IF i <= currentLevel THEN s.nodes[Header].levels[i]
                          ELSE [forward |-> Nil, span |-> pos]]]
        update0 == [i \in 0..top |-> IF i <= currentLevel THEN update[i] ELSE Header]
        newNode == newNodeId(nodes0, elem[1])
        unsorted == update0[0] /= Header
                    /\ lessThan(cx, elem[1], nodes0[update0[0]].key)
        created == [levels |-> [i \in 0..newLevel |-> emptyLevel],
                    backward |-> IF update0[0] /= Header THEN update0[0] ELSE Nil,
                    key |-> elem[1], value |-> elem[2]]
        nodes1  == [n \in DOMAIN nodes0 \cup {newNode} |->
                     IF n = newNode THEN created
                     ELSE [nodes0[n] EXCEPT !.levels =
                             [i \in DOMAIN nodes0[n].levels |->
                                 IF i <= top /\ update0[i] = n
                                 THEN IF i <= newLevel
                                      THEN [forward |-> newNode,
                                            span |-> nodes0[n].levels[i].span + 1]
                                      ELSE [nodes0[n].levels[i] EXCEPT
                                              !.span = nodes0[n].levels[i].span + 1]
                                 ELSE nodes0[n].levels[i]]]]
        update1 == [i \in 0..top |-> IF i <= newLevel THEN newNode ELSE update0[i]]
    IN  IF unsorted
        THEN [s |-> [s EXCEPT !.nodes = nodes0], update |-> update0,
              fatal |-> "goskiplist: fill by unsorted slice"]
        ELSE [s |-> [s EXCEPT !.nodes = nodes1, !.footer = newNode,
                                !.length = s.length + 1],
              update |-> update1, fatal |-> ""]

\* one iteration of the loop: the element at index pos (from 0), given level
\* newLevel, is appended behind the tails update[i]
fillOne(cx, s, update, pos, elem, newLevel) ==
    LET currentLevel == level(s)
        top     == maxInt(newLevel, currentLevel)
        nodes0  == [s.nodes EXCEPT ![Header].levels =
                      [i \in 0..top |->
                          IF i <= currentLevel THEN s.nodes[Header].levels[i]
                          ELSE [forward |-> Nil, span |-> pos]]]
        update0 == [i \in 0..top |-> IF i <= currentLevel THEN update[i] ELSE Header]
        newNode == newNodeId(nodes0, elem[1])
        unsorted == update0[0] /= Header
                    /\ ~lessThan(cx, nodes0[update0[0]].key, elem[1])
        created == [levels |-> [i \in 0..newLevel |-> emptyLevel],
                    backward |-> IF update0[0] /= Header THEN update0[0] ELSE Nil,
                    key |-> elem[1], value |-> elem[2]]
        nodes1  == [n \in DOMAIN nodes0 \cup {newNode} |->
                     IF n = newNode THEN created
                     ELSE [nodes0[n] EXCEPT !.levels =
                             [i \in DOMAIN nodes0[n].levels |->
                                 IF i <= top /\ update0[i] = n
                                 THEN IF i <= newLevel
                                      THEN [forward |-> newNode,
                                            span |-> nodes0[n].levels[i].span + 1]
                                      ELSE [nodes0[n].levels[i] EXCEPT
                                              !.span = nodes0[n].levels[i].span + 1]
                                 ELSE nodes0[n].levels[i]]]]
        update1 == [i \in 0..top |-> IF i <= newLevel THEN newNode ELSE update0[i]]
    IN  IF unsorted
        THEN [s |-> [s EXCEPT !.nodes = nodes0], update |-> update0,
              fatal |-> "goskiplist: fill by unsorted slice"]
        ELSE [s |-> [s EXCEPT !.nodes = nodes1, !.footer = newNode,
                                !.length = s.length + 1],
              update |-> update1, fatal |-> ""]

\* (mutant of fillFrom) every iteration is run as the one at index 0, so
\* that levels added to the header start with span 0
RECURSIVE fillFromFirstPos(_, _, _, _, _, _)
fillFromFirstPos(cx, s, update, pos, elements, rnd) ==
    IF pos >= Len(elements) THEN [s |-> s, ok |-> TRUE, fatal |-> ""]
    ELSE LET r == fillOne(cx, s, update, 0, elements[pos + 1], rnd[pos + 1])
         IN  IF r.fatal /= "" THEN [s |-> r.s, ok |-> FALSE, fatal |-> r.fatal]
             ELSE fillFromFirstPos(cx, r.s, r.update, pos + 1, elements, rnd)

RECURSIVE fillFrom(_, _, _, _, _, _)
fillFrom(cx, s, update, pos, elements, rnd) ==
    IF pos >= Len(elements) THEN [s |-> s, ok |-> TRUE, fatal |-> ""]
    ELSE LET r == fillOne(cx, s, update, pos, elements[pos + 1], rnd[pos + 1])
         IN  IF r.fatal /= "" THEN [s |-> r.s, ok |-> FALSE, fatal |-> r.fatal]
             ELSE fillFrom(cx, r.s, r.update, pos + 1, elements, rnd)

\* FillBySortedSlice(elements), where rnd[pos+1] is the level randomLevel
\* returns for the element at index pos
FillBySortedSliceOp(cx, s, elements, rnd) ==
    IF SkipListLen(s) /= 0
    THEN [s |-> s, ok |-> FALSE, fatal |-> "goskiplist: can only fill empty skiplist"]
    ELSE fillFrom(cx, s, [i \in 0..level(s) |-> IF i = 0 THEN Header ELSE Nil],
                  0, elements, rnd)

\* whether randomLevel can return rnd[pos+1] at each iteration of the fill
RECURSIVE fillLevelsPossible(_, _, _)
fillLevelsPossible(top, maxLevel, rnd) ==
    IF Len(rnd) = 0 THEN TRUE
    ELSE /\ Head(rnd) \in 0..maxInt(top, maxLevel)
         /\ fillLevelsPossible(maxInt(top, Head(rnd)), maxLevel, Tail(rnd))

(***************************************************************************)
(* Cursors.  A cursor is the record of iter's fields; the list it reads is *)
(* passed as the heap.                                                     *)
(***************************************************************************)
\* the cursor positioned on node n
iterAt(nodes, n) == [current |-> n, key |-> nodes[n].key, value |-> nodes[n].value]

Iterator(s) == [current |-> Header, key |-> Nil, value |-> Nil]

iterNext(nodes, i) ==
    IF ~hasNext(nodes, i.current) THEN [ok |-> FALSE, it |-> i]
    ELSE [ok |-> TRUE, it |-> iterAt(nodes, next(nodes, i.current)) @@ i]

\* (mutant of iterPrevious) the cursor moves, its key and value stay
iterPreviousStale(nodes, i) ==
    IF ~hasPrevious(nodes, i.current) THEN [ok |-> FALSE, it |-> i]
    ELSE [ok |-> TRUE, it |-> [i EXCEPT !.current = previous(nodes, i.current)]]

iterPrevious(nodes, i) ==
    IF ~hasPrevious(nodes, i.current) THEN [ok |-> FALSE, it |-> i]
    ELSE [ok |-> TRUE, it |-> iterAt(nodes, previous(nodes, i.current)) @@ i]

\* (mutant of iterSeek) the search starts at the cursor's node, not behind it
iterSeekNoBackUp(cx, s, nodes, i, key) ==
    LET c0 == IF i.current = Nil THEN Header ELSE i.current
        c1 == IF nodes[c0].key /= Nil /\ lessThan(cx, key, nodes[c0].key)
              THEN Header ELSE c0
        c3 == getLowerBound(cx, nodes, c1, key)
    IN  IF c3 = Nil THEN [ok |-> FALSE, it |-> i]
        ELSE [ok |-> TRUE, it |-> iterAt(nodes, c3) @@ i]

iterSeek(cx, s, nodes, i, key) ==
    LET c0 == IF i.current = Nil THEN Header ELSE i.current
        c1 == IF nodes[c0].key /= Nil /\ lessThan(cx, key, nodes[c0].key)
              THEN Header ELSE c0
        c2 == IF nodes[c1].backward = Nil THEN Header ELSE nodes[c1].backward
        c3 == getLowerBound(cx, nodes, c2, key)
    IN  IF c3 = Nil THEN [ok |-> FALSE, it |-> i]
        ELSE [ok |-> TRUE, it |-> iterAt(nodes, c3) @@ i]

\* the nil Iterator: a cursor on no node
NilIterator == [current |-> Nil, key |-> Nil, value |-> Nil]

\* s.Seek(key)
SkipListSeek(cx, s, key) ==
    LET current == getLowerBound(cx, s.nodes, Header, key)
    IN  IF current = Nil THEN NilIterator ELSE iterAt(s.nodes, current)

\* s.SeekToFirst()
SeekToFirst(s) ==
    IF s.length = 0 THEN NilIterator ELSE iterAt(s.nodes, next(s.nodes, Header))

\* s.SeekToLast()
SeekToLast(s) ==
    IF s.footer = Nil THEN NilIterator ELSE iterAt(s.nodes, s.footer)

\* the id of the node Range allocates for its cursor to start on; the node
\* is the cursor's own and is kept in the cursor record
Syn == -2

\* the memory a cursor reads: the list's nodes and, for a range cursor, its
\* start node
heapOf(s, i) ==
    IF i.kind = "range" THEN (Syn :> i.startNode) @@ s.nodes ELSE s.nodes

Range(cx, s, from, to) ==
    LET start == getLowerBound(cx, s.nodes, Header, from)
    IN  [kind |-> "range", current |-> Syn, key |-> Nil, value |-> Nil,
         upperLimit |-> to, lowerLimit |-> from,
         startNode |-> [levels |-> (0 :> [forward |-> start, span |-> 0]),
                        backward |-> start, key |-> Nil, value |-> Nil]]

rangeNext(cx, nodes, i) ==
    IF ~hasNext(nodes, i.current) THEN [ok |-> FALSE, it |-> i]
    ELSE LET nxt == next(nodes, i.current)
         IN  IF ~lessThan(cx, nodes[nxt].key, i.upperLimit)
             THEN [ok |-> FALSE, it |-> i]
             ELSE [ok |-> TRUE, it |-> iterAt(nodes, next(nodes, i.current)) @@ i]

rangePrevious(cx, nodes, i) ==
    IF ~hasPrevious(nodes, i.current) THEN [ok |-> FALSE, it |-> i]
    ELSE LET prv == previous(nodes, i.current)
         IN  IF lessThan(cx, nodes[prv].key, i.lowerLimit)
             THEN [ok |-> FALSE, it |-> i]
             ELSE [ok |-> TRUE, it |-> iterAt(nodes, previous(nodes, i.current)) @@ i]

rangeSeek(cx, s, nodes, i, key) ==
    IF lessThan(cx, key, i.lowerLimit) THEN [ok |-> FALSE, it |-> i]
    ELSE IF ~lessThan(cx, key, i.upperLimit) THEN [ok |-> FALSE, it |-> i]
    ELSE iterSeek(cx, s, nodes, i, key)

(***************************************************************************)
(* The sorted set.  A *zsetScore is a cell id, the cells live in mem.  A   *)
(* pair [2]interface{} is a tuple: p[1] is the Go p[0], p[2] the Go p[1].  *)
(***************************************************************************)
\* the capacity of the pool's channel
PoolCap == 128

\* math.MaxInt64, cut to the largest integer the checker has; every counter
\* of the model stays below it
MaxInt64 == 2147483647

newzsetScorePool == [pool |-> <<>>, counter |-> 0]

NewCustomZSet(scoreLessThan) ==
    [key2Score |-> [k \in {} |-> Nil], sl |-> NewCustomMap,
     pool |-> newzsetScorePool, scoreLessThan |-> scoreLessThan]

\* the comparator of z.sl over the memory mem
cxOf(z, mem) == ZCx(z.scoreLessThan, mem)

\* &zsetScore{...}: the least cell id not in use
newCellId(mem) ==
    CHOOSE n \in 1..(len(mem) + 1) :
        n \notin DOMAIN mem /\ \A m \in 1..(n - 1) : m \in DOMAIN mem

\* (mutant of poolGet) p.counter is not advanced
poolGetNoCount(pool, mem, score) ==
    IF Len(pool.pool) > 0
    THEN LET s == Head(pool.pool)
         IN  [cell |-> s,
              pool |-> [pool |-> Tail(pool.pool), counter |-> pool.counter],
              cells |-> [mem EXCEPT ![s] = [score |-> score, counter |-> pool.counter]]]
    ELSE LET s == newCellId(mem)
         IN  [cell |-> s,
              pool |-> pool,
              cells |-> (s :> [score |-> score, counter |-> pool.counter]) @@ mem]

\* p.Get(score): the cell, the pool and the memory after the call
poolGet(pool, mem, score) ==
    IF Len(pool.pool) > 0
    THEN LET s == Head(pool.pool)
         IN  [cell |-> s,
              pool |-> [pool |-> Tail(pool.pool), counter |-> pool.counter + 1],
              cells |-> [mem EXCEPT ![s] = [score |-> score, counter |-> pool.counter + 1]]]
    ELSE LET s == newCellId(mem)
         IN  [cell |-> s,
              pool |-> [pool EXCEPT !.counter = pool.counter + 1],
              cells |-> (s :> [score |-> score, counter |-> pool.counter + 1]) @@ mem]

\* p.Put(s)
poolPut(pool, s) ==
    IF Len(pool.pool) < PoolCap THEN [pool EXCEPT !.pool = Append(pool.pool, s)]
    ELSE pool

\* (mutant of replaceScore) the old node is left in the list
replaceScoreKeepNode(z, mem, key, score, rnd) ==
    LET cur == z.key2Score[key]
        p1 == poolPut(z.pool, cur)
        g  == poolGet(p1, mem, score)
        r  == SetOp(cxOf(z, g.cells), z.sl, g.cell, key, rnd)
    IN  [zs |-> [z EXCEPT !.sl = r.s, !.pool = g.pool, !.key2Score[key] = g.cell],
         cells |-> g.cells, fatal |-> r.fatal]

\* the update branch of Add and of Update: the key's node is deleted, its
\* cell goes to the pool, and the key is set again under a cell from the pool
replaceScore(z, mem, key, score, rnd) ==
    LET cur == z.key2Score[key]
        d  == DeleteOp(cxOf(z, mem), z.sl, cur)
        p1 == poolPut(z.pool, cur)
        g  == poolGet(p1, mem, score)
        r  == SetOp(cxOf(z, g.cells), d.s, g.cell, key, rnd)
    IN  IF d.fatal /= "" THEN [zs |-> z, cells |-> mem, fatal |-> d.fatal]
        ELSE [zs |-> [z EXCEPT !.sl = r.s, !.pool = g.pool, !.key2Score[key] = g.cell],
              cells |-> g.cells, fatal |-> r.fatal]

ZSetAddOp(z, mem, key, score, rnd) ==
    IF key \in DOMAIN z.key2Score
    THEN IF score /= mem[z.key2Score[key]].score
         THEN replaceScore(z, mem, key, score, rnd) @@ [ok |-> TRUE]
         ELSE [zs |-> z, cells |-> mem, fatal |-> "", ok |-> TRUE]
    ELSE LET g == poolGet(z.pool, mem, score)
             r == SetOp(cxOf(z, g.cells), z.sl, g.cell, key, rnd)
         IN  [zs |-> [z EXCEPT !.sl = r.s, !.pool = g.pool,
                               !.key2Score = (key :> g.cell) @@ z.key2Score],
              cells |-> g.cells, fatal |-> r.fatal, ok |-> TRUE]

ZSetUpdateOp(z, mem, key, score, rnd) ==
    IF key \notin DOMAIN z.key2Score
    THEN [zs |-> z, cells |-> mem, fatal |-> "", ok |-> FALSE]
    ELSE IF score /= mem[z.key2Score[key]].score
         THEN replaceScore(z, mem, key, score, rnd) @@ [ok |-> TRUE]
         ELSE [zs |-> z, cells |-> mem, fatal |-> "", ok |-> TRUE]

ZSetRemoveOp(z, mem, key) ==
    IF key \notin DOMAIN z.key2Score
    THEN [zs |-> z, cells |-> mem, fatal |-> "", ok |-> FALSE]
    ELSE LET cur == z.key2Score[key]
             d == DeleteOp(cxOf(z, mem), z.sl, cur)
         IN  IF d.fatal /= "" THEN [zs |-> z, cells |-> mem, fatal |-> d.fatal, ok |-> FALSE]
             ELSE [zs |-> [z EXCEPT !.sl = d.s, !.pool = poolPut(z.pool, cur),
                                   !.key2Score = [k \in DOMAIN z.key2Score \ {key} |->
                                                     z.key2Score[k]]],
                   cells |-> mem, fatal |-> "", ok |-> TRUE]

ZSetRank(z, mem, key) ==
    IF key \notin DOMAIN z.key2Score THEN 0
    ELSE Rank(cxOf(z, mem), z.sl, z.key2Score[key])

\* Score(key) of a key of the map
Score(z, mem, key) == mem[z.key2Score[key]].score

\* Score(key): the map yields the nil pointer for a key it does not hold,
\* and reading the score through it panics
ScoreOp(z, mem, key) ==
    IF key \notin DOMAIN z.key2Score
    THEN [value |-> Nil,
          fatal |-> "runtime error: invalid memory address or nil pointer dereference"]
    ELSE [value |-> Score(z, mem, key), fatal |-> ""]

Card(z) == len(z.key2Score)

\* the loop of RangeByRank: the cursor i is on the element of rank r
RECURSIVE rangeByRankFrom(_, _, _, _, _)
rangeByRankFrom(z, mem, i, r, rankTo) ==
    IF r > rankTo THEN <<>>
    ELSE LET pair == <<i.value, mem[i.key].score>>
             n == iterNext(z.sl.nodes, i)
         IN  IF ~n.ok THEN <<pair>>
             ELSE <<pair>> \o rangeByRankFrom(z, mem, n.it, r + 1, rankTo)

\* a slice value: the nil slice, or a slice with its elements
NilSlice == [nil |-> TRUE, elems |-> <<>>]

SliceOf(elems) == [nil |-> FALSE, elems |-> elems]

\* (mutant of RangeByRank) the loop stops before rankTo
RangeByRankExclusive(z, mem, rankFrom, rankTo) ==
    LET to == IF rankTo > SkipListLen(z.sl) THEN SkipListLen(z.sl) ELSE rankTo
    IN  IF to < rankFrom THEN NilSlice
        ELSE LET n == GetElemByRank(z.sl, rankFrom)
             IN  IF n = Nil THEN NilSlice
                 ELSE SliceOf(rangeByRankFrom(z, mem, iterAt(z.sl.nodes, n), rankFrom, to - 1))

\* RangeByRank(rankFrom, rankTo): the slice returned
RangeByRank(z, mem, rankFrom, rankTo) ==
    LET to == IF rankTo > SkipListLen(z.sl) THEN SkipListLen(z.sl) ELSE rankTo
    IN  IF to < rankFrom THEN NilSlice
        ELSE LET n == GetElemByRank(z.sl, rankFrom)
             IN  IF n = Nil THEN NilSlice
                 ELSE SliceOf(rangeByRankFrom(z, mem, iterAt(z.sl.nodes, n), rankFrom, to))

\* the loop of RangeByScore
RECURSIVE rangeByScoreFrom(_, _, _, _)
rangeByScoreFrom(cx, nodes, i, fuel) ==
    LET n == rangeNext(cx, nodes, i)
    IN  IF ~n.ok \/ fuel = 0 THEN <<>>
        ELSE <<n.it.value>> \o rangeByScoreFrom(cx, nodes, n.it, fuel - 1)

\* RangeByScore with the upper bound cell's counter given
rangeByScoreUpTo(z, mem, scoreFrom, scoreTo, toCounter) ==
    LET from == newCellId(mem)
        mem1 == (from :> [score |-> scoreFrom, counter |-> 0]) @@ mem
        to   == newCellId(mem1)
        mem2 == (to :> [score |-> scoreTo, counter |-> toCounter]) @@ mem1
        i    == Range(cxOf(z, mem2), z.sl, from, to)
    IN  rangeByScoreFrom(cxOf(z, mem2), heapOf(z.sl, i), i, len(z.sl.nodes))

\* (mutant of RangeByScore) the upper bound cell is left with counter 0
RangeByScoreZeroCounter(z, mem, scoreFrom, scoreTo) ==
    rangeByScoreUpTo(z, mem, scoreFrom, scoreTo, 0)

RangeByScore(z, mem, scoreFrom, scoreTo) ==
    rangeByScoreUpTo(z, mem, scoreFrom, scoreTo, MaxInt64)

ZSetClearOp(z) == [z EXCEPT !.key2Score = [k \in {} |-> Nil], !.sl = ClearOp(z.sl)]

\* the loop of Marshal (and of Foreach)
RECURSIVE marshalFrom(_, _, _, _)
marshalFrom(nodes, mem, i, fuel) ==
    LET n == iterNext(nodes, i)
    IN  IF ~n.ok \/ fuel = 0 THEN <<>>
        ELSE <<<<n.it.value, mem[n.it.key].score>>>> \o marshalFrom(nodes, mem, n.it, fuel - 1)

Marshal(z, mem) == marshalFrom(z.sl.nodes, mem, Iterator(z.sl), len(z.sl.nodes))

\* (mutant of unmarshalFrom) the map is not written
RECURSIVE unmarshalFromNoMap(_, _, _, _)
unmarshalFromNoMap(z, mem, elements, pos) ==
    IF pos >= Len(elements) THEN [zs |-> z, cells |-> mem, elements |-> elements]
    ELSE LET elem == elements[pos + 1]
             g == poolGet(z.pool, mem, elem[2])
         IN  unmarshalFromNoMap([z EXCEPT !.pool = g.pool],
                                g.cells,
                                [elements EXCEPT ![pos + 1] = <<g.cell, elem[1]>>],
                                pos + 1)

\* the loop of Unmarshal over elements[pos+1..]: the map, the pool, the
\* memory and the rewritten slice
RECURSIVE unmarshalFrom(_, _, _, _)
unmarshalFrom(z, mem, elements, pos) ==
    IF pos >= Len(elements) THEN [zs |-> z, cells |-> mem, elements |-> elements]
    ELSE LET elem == elements[pos + 1]
             g == poolGet(z.pool, mem, elem[2])
         IN  unmarshalFrom([z EXCEPT !.pool = g.pool,
                                     !.key2Score = (elem[1] :> g.cell) @@
                                        [k \in DOMAIN z.key2Score \ {elem[1]} |->
                                            z.key2Score[k]]],
                           g.cells,
                           [elements EXCEPT ![pos + 1] = <<g.cell, elem[1]>>],
                           pos + 1)

Unmarshal(z, mem, elements, rnd) ==
    LET u == unmarshalFrom(z, mem, elements, 0)
        f == FillBySortedSliceOp(cxOf(u.zs, u.cells), u.zs.sl, u.elements, rnd)
    IN  [zs |-> [u.zs EXCEPT !.sl = f.s], cells |-> u.cells, ok |-> f.ok, fatal |-> f.fatal]

(***************************************************************************)
(* The plain engine as a state machine: a list of int keys (NewIntMap).    *)
(* A panic ends the program: no action is enabled once fatal is set.       *)
(* The list is changed only while the caller holds no cursor on it.        *)
(***************************************************************************)
NoIter == [kind |-> "none"]

NoRet == [op |-> "none"]

NoSnap == [phase |-> "none"]

NoAbs == [score |-> [k \in AppKeys |-> Nil], order |-> <<>>]

Init ==
    /\ sl = NewCustomMap
    /\ it = NoIter
    /\ ret = NoRet
    /\ fatal = ""
    /\ amap = [k \in Keys |-> Nil]
    /\ zs = NewCustomZSet("asc")
    /\ cells = [c \in {} |-> Nil]
    /\ snap = NoSnap
    /\ abs = NoAbs

\* s.MaxLevel = m; the caller configures the list while it is empty, and may
\* raise MaxLevel above the levels the random source comes to return
SetMaxLevel(m) ==
    /\ fatal = "" /\ it = NoIter
    /\ sl.length = 0
    /\ sl' = [sl EXCEPT !.MaxLevel = m]
    /\ ret' = NoRet
    /\ UNCHANGED <<it, fatal, amap>>
    /\ UNCHANGED zvars

Set(key, value, rnd) ==
    /\ fatal = "" /\ it = NoIter
    /\ rnd \in randomLevels(sl)
    /\ LET r == SetOp(IntCx, sl, key, value, rnd)
       IN  /\ sl' = r.s
           /\ fatal' = r.fatal
           /\ amap' = IF r.fatal = "" THEN [amap EXCEPT ![key] = value] ELSE amap
    /\ ret' = NoRet
    /\ UNCHANGED it
    /\ UNCHANGED zvars

Delete(key) ==
    /\ fatal = "" /\ it = NoIter
    /\ LET r == DeleteOp(IntCx, sl, key)
       IN  /\ sl' = r.s
           /\ fatal' = r.fatal
           /\ ret' = [op |-> "Delete", key |-> key, returned |-> r.fatal = "",
                      value |-> r.value, ok |-> r.ok,
                      stored |-> IF key = Nil THEN Nil ELSE amap[key]]
           /\ amap' = IF r.fatal = "" THEN [amap EXCEPT ![key] = Nil] ELSE amap
    /\ UNCHANGED it
    /\ UNCHANGED zvars

Clear ==
    /\ fatal = "" /\ it = NoIter
    /\ sl' = ClearOp(sl)
    /\ amap' = [k \in Keys |-> Nil]
    /\ ret' = NoRet
    /\ UNCHANGED <<it, fatal>>
    /\ UNCHANGED zvars

\* the slices FillBySortedSlice is called with: any keys in any order, one
\* value for all elements; on a list that is not empty the call panics
\* before it reads its argument
FillInputs == UNION {[1..n -> Keys \X {v}] : n \in 0..MaxFill, v \in Vals}

RECURSIVE filled(_, _)
filled(m, elements) ==
    IF Len(elements) = 0 THEN m
    ELSE filled([m EXCEPT ![Head(elements)[1]] = Head(elements)[2]], Tail(elements))

FillBySortedSlice(elements, rnd) ==
    /\ fatal = "" /\ it = NoIter
    /\ fillLevelsPossible(level(sl), sl.MaxLevel, rnd)
    /\ LET r == FillBySortedSliceOp(IntCx, sl, elements, rnd)
       IN  /\ sl' = r.s
           /\ fatal' = r.fatal
           /\ ret' = IF r.fatal = "" THEN [op |-> "FillBySortedSlice", ok |-> r.ok]
                     ELSE NoRet
           /\ amap' = IF r.fatal = "" THEN filled(amap, elements) ELSE amap
    /\ UNCHANGED it
    /\ UNCHANGED zvars

Next ==
    \/ \E m \in 0..(DefaultMaxLevel + 1) : SetMaxLevel(m)
    \/ \E key \in Keys \cup {Nil}, value \in Vals, rnd \in 0..DefaultMaxLevel :
          Set(key, value, rnd)
    \/ \E key \in Keys \cup {Nil} : Delete(key)
    \/ Clear
    \/ \E elements \in (IF sl.length = 0 THEN FillInputs ELSE {<<>>}) :
          \E rnd \in [1..Len(elements) -> 0..DefaultMaxLevel] :
             FillBySortedSlice(elements, rnd)

Spec == Init /\ [][Next]_vars

(***************************************************************************)
(* What the claims speak of.                                               *)
(***************************************************************************)
\* the nodes of the level-0 chain, in order (at most as many as the heap holds)
RECURSIVE chainFrom(_, _, _)
chainFrom(nodes, n, fuel) ==
    IF n = Nil \/ fuel = 0 THEN <<>>
    ELSE <<n>> \o chainFrom(nodes, next(nodes, n), fuel - 1)

Chain(s) == chainFrom(s.nodes, next(s.nodes, Header), len(s.nodes))

\* the keys a fresh Iterator yields when driven by Next until it returns false
RECURSIVE drain(_, _, _)
drain(nodes, i, fuel) ==
    LET r == iterNext(nodes, i)
    IN  IF ~r.ok \/ fuel = 0 THEN <<>>
        ELSE <<r.it.key>> \o drain(nodes, r.it, fuel - 1)

IterKeys(s) == drain(s.nodes, Iterator(s), len(s.nodes))

\* the keys of the abstract map
Present == {k \in Keys : amap[k] /= Nil}

(* C1: while no call has panicked on a nil key or in FillBySortedSlice, the
   engine behaves as the abstract map amap: Get(k) returns
   (amap[k], true) when k is present and (nil, false) otherwise; a Delete(k)
   of a non-nil key returns (stored value, true) when k was present and
   (nil, false) otherwise; Len() is the number of present keys. *)
AbstractMap ==
    /\ fatal = "" =>
          \A k \in Keys :
              Get(IntCx, sl, k) = [value |-> amap[k], ok |-> amap[k] /= Nil]
    /\ (ret.op = "Delete" /\ ret.key /= Nil) =>
          /\ ret.returned
          /\ ret.value = ret.stored
          /\ ret.ok = (ret.stored /= Nil)
    /\ fatal = "" => SkipListLen(sl) = Cardinality(Present)

\* the same, for the calls of Delete that return
AbstractMapWhenReturned ==
    /\ fatal = "" =>
          \A k \in Keys :
              Get(IntCx, sl, k) = [value |-> amap[k], ok |-> amap[k] /= Nil]
    /\ (ret.op = "Delete" /\ ret.returned) =>
          /\ ret.value = ret.stored
          /\ ret.ok = (ret.stored /= Nil)
    /\ fatal = "" => SkipListLen(sl) = Cardinality(Present)

(* C2: in every state reached without a panic the level-0 chain is strictly
   increasing by the comparator, and a fresh Iterator driven by Next yields
   each live key exactly once, in ascending order. *)
OrderedChain ==
    fatal = "" =>
        LET c == Chain(sl)
            ks == IterKeys(sl)
        IN  /\ \A i, j \in 1..Len(c) :
                  i < j => lessThan(IntCx, sl.nodes[c[i]].key, sl.nodes[c[j]].key)
            /\ Len(ks) = Cardinality(Present)
            /\ {ks[i] : i \in 1..Len(ks)} = Present
            /\ \A i, j \in 1..Len(ks) : i < j => ks[i] < ks[j]

\* a Delete has removed a key and left two keys or more, on more than one level
OrderedChainWitness ==
    /\ fatal = "" /\ ret.op = "Delete" /\ ret.ok
    /\ sl.length >= 2 /\ level(sl) >= 1

(* C3: Rank(k) is 1 plus the number of live keys less than k when k is live,
   and 0 when k is not live. *)
RankIsPosition ==
    fatal = "" =>
        \A k \in Keys :
            Rank(IntCx, sl, k) =
                IF k \in Present THEN 1 + Cardinality({j \in Present : j < k}) ELSE 0

\* a live key of rank 2 found through a level above 0, after a Delete
RankIsPositionWitness ==
    /\ fatal = "" /\ ret.op = "Delete" /\ ret.ok
    /\ \E k \in Present :
          /\ Rank(IntCx, sl, k) = 2
          /\ \E n \in DOMAIN sl.nodes : sl.nodes[n].key = k /\ len(sl.nodes[n].levels) > 1

(* C4: Rank and GetElemByRank are mutually inverse: for every live key k
   GetElemByRank(Rank(k)) is a cursor on k, and for every r in 1..Len()
   GetElemByRank(r) is non-nil and Rank of its key is r. *)
RankSelectInverse ==
    fatal = "" =>
        /\ \A k \in Present :
              LET n == GetElemByRank(sl, Rank(IntCx, sl, k))
              IN  n /= Nil /\ iterAt(sl.nodes, n).key = k
        /\ \A r \in 1..SkipListLen(sl) :
              LET n == GetElemByRank(sl, r)
              IN  n /= Nil /\ Rank(IntCx, sl, iterAt(sl.nodes, n).key) = r

\* three live keys, the one of rank 3 reached from a node of level > 0
RankSelectInverseWitness ==
    /\ fatal = "" /\ SkipListLen(sl) >= 3 /\ level(sl) >= 1
    /\ GetElemByRank(sl, 3) /= Nil
    /\ len(sl.nodes[GetElemByRank(sl, 2)].levels) > 1

(***************************************************************************)
(* Cursors on the plain engine: the caller builds a list with Set and      *)
(* Delete, takes a range cursor, moves it, and closes it before it changes *)
(* the list again.                                                         *)
(***************************************************************************)
\* the limits Range is called with
Limits == 1..(MaxKey + 1)

OpenRange(from, to) ==
    /\ fatal = "" /\ it = NoIter
    /\ it' = Range(IntCx, sl, from, to)
    /\ ret' = NoRet
    /\ UNCHANGED <<sl, fatal, amap>>
    /\ UNCHANGED zvars

RangeNext ==
    /\ fatal = "" /\ it.kind = "range"
    /\ LET r == rangeNext(IntCx, heapOf(sl, it), it)
       IN  it' = r.it /\ ret' = [op |-> "Next", ok |-> r.ok]
    /\ UNCHANGED <<sl, fatal, amap>>
    /\ UNCHANGED zvars

RangePrevious ==
    /\ fatal = "" /\ it.kind = "range"
    /\ LET r == rangePrevious(IntCx, heapOf(sl, it), it)
       IN  it' = r.it /\ ret' = [op |-> "Previous", ok |-> r.ok]
    /\ UNCHANGED <<sl, fatal, amap>>
    /\ UNCHANGED zvars

RangeSeek(key) ==
    /\ fatal = "" /\ it.kind = "range"
    /\ LET r == rangeSeek(IntCx, sl, heapOf(sl, it), it, key)
       IN  it' = r.it /\ ret' = [op |-> "Seek", key |-> key, ok |-> r.ok]
    /\ UNCHANGED <<sl, fatal, amap>>
    /\ UNCHANGED zvars

\* the caller drops the cursor
Close ==
    /\ fatal = "" /\ it /= NoIter
    /\ it' = NoIter
    /\ ret' = NoRet
    /\ UNCHANGED <<sl, fatal, amap>>
    /\ UNCHANGED zvars

\* the values do not matter to a cursor's moves: one value is Set
CursorVal == CHOOSE v \in Vals : TRUE

NextCursor ==
    \/ \E key \in Keys, rnd \in 0..DefaultMaxLevel : Set(key, CursorVal, rnd)
    \/ \E key \in Keys : Delete(key)
    \/ \E from \in Limits, to \in Limits : OpenRange(from, to)
    \/ RangeNext
    \/ RangePrevious
    \/ \E key \in Limits : RangeSeek(key)
    \/ Close

SpecCursor == Init /\ [][NextCursor]_vars

\* the range cursor's last call returned true
RangeMoved == it.kind = "range" /\ ret.op \in {"Next", "Previous", "Seek"} /\ ret.ok

(* C10: whenever Next, Previous or Seek on a cursor from Range(from, to),
   from < to, returns true, the key the cursor is on satisfies
   from <= key < to. *)
RangeCursorInBounds ==
    (RangeMoved /\ lessThan(IntCx, it.lowerLimit, it.upperLimit)) =>
        /\ ~lessThan(IntCx, it.key, it.lowerLimit)
        /\ lessThan(IntCx, it.key, it.upperLimit)

\* the same for Next alone, whatever the limits
RangeCursorInBoundsAfterNext ==
    (RangeMoved /\ ret.op = "Next") =>
        /\ ~lessThan(IntCx, it.key, it.lowerLimit)
        /\ lessThan(IntCx, it.key, it.upperLimit)

(***************************************************************************)
(* The sorted set as a state machine.  The caller adds, updates, removes   *)
(* and clears; it may take the set through a round trip: Marshal, Clear,   *)
(* Unmarshal of the slice Marshal returned.  Cells nothing points to any   *)
(* more are collected.  The pool's counter is kept below MaxCounter.       *)
(***************************************************************************)
InitZSet ==
    /\ sl = NewCustomMap
    /\ it = NoIter
    /\ ret = NoRet
    /\ fatal = ""
    /\ amap = [k \in Keys |-> Nil]
    /\ \E scoreLessThan \in ScoreOrders : zs = NewCustomZSet(scoreLessThan)
    /\ cells = [c \in {} |-> Nil]
    /\ snap = NoSnap
    /\ abs = NoAbs

\* the cells something points to: the map, the pool, the keys of the nodes
referenced(z) ==
    {z.key2Score[k] : k \in DOMAIN z.key2Score}
    \cup {z.pool.pool[j] : j \in 1..Len(z.pool.pool)}
    \cup {z.sl.nodes[n].key : n \in DOMAIN z.sl.nodes \ {Header}}

collect(z, mem) == [c \in DOMAIN mem \cap referenced(z) |-> mem[c]]

\* (ghost) seq without the element k
RECURSIVE without(_, _)
without(seq, k) ==
    IF Len(seq) = 0 THEN <<>>
    ELSE IF Head(seq) = k THEN without(Tail(seq), k)
    ELSE <<Head(seq)>> \o without(Tail(seq), k)

\* (ghost) key k receives score s now
absReceive(a, k, s) ==
    [score |-> [a.score EXCEPT ![k] = s], order |-> Append(without(a.order, k), k)]

\* (ghost) Add, Update of a live key: a changed score is received now, the
\* same score changes nothing
absSet(a, k, s) == IF a.score[k] = s THEN a ELSE absReceive(a, k, s)

absRemove(a, k) ==
    [score |-> [a.score EXCEPT ![k] = Nil], order |-> without(a.order, k)]

RECURSIVE absUnmarshal(_, _)
absUnmarshal(a, elements) ==
    IF Len(elements) = 0 THEN a
    ELSE absUnmarshal(absReceive(a, Head(elements)[1], Head(elements)[2]), Tail(elements))

ZSetAdd(key, score, rnd) ==
    /\ fatal = "" /\ snap = NoSnap
    /\ rnd \in randomLevels(zs.sl)
    /\ LET r == ZSetAddOp(zs, cells, key, score, rnd)
       IN  /\ r.zs.pool.counter <= MaxCounter
           /\ zs' = r.zs
           /\ cells' = collect(r.zs, r.cells)
           /\ fatal' = r.fatal
           /\ ret' = IF r.fatal = "" THEN [op |-> "ZSet", ok |-> r.ok] ELSE NoRet
           /\ abs' = IF r.fatal = "" THEN absSet(abs, key, score) ELSE abs
    /\ UNCHANGED snap
    /\ UNCHANGED evars

ZSetUpdate(key, score, rnd) ==
    /\ fatal = "" /\ snap = NoSnap
    /\ rnd \in randomLevels(zs.sl)
    /\ LET r == ZSetUpdateOp(zs, cells, key, score, rnd)
       IN  /\ r.zs.pool.counter <= MaxCounter
           /\ zs' = r.zs
           /\ cells' = collect(r.zs, r.cells)
           /\ fatal' = r.fatal
           /\ ret' = IF r.fatal = "" THEN [op |-> "ZSet", ok |-> r.ok] ELSE NoRet
           /\ abs' = IF r.fatal = "" /\ r.ok THEN absSet(abs, key, score) ELSE abs
    /\ UNCHANGED snap
    /\ UNCHANGED evars

ZSetRemove(key) ==
    /\ fatal = "" /\ snap = NoSnap
    /\ LET r == ZSetRemoveOp(zs, cells, key)
       IN  /\ zs' = r.zs
           /\ cells' = collect(r.zs, r.cells)
           /\ fatal' = r.fatal
           /\ ret' = IF r.fatal = "" THEN [op |-> "ZSet", ok |-> r.ok] ELSE NoRet
           /\ abs' = IF r.fatal = "" /\ r.ok THEN absRemove(abs, key) ELSE abs
    /\ UNCHANGED snap
    /\ UNCHANGED evars

\* Clear, also as the second step of a round trip
ZSetClear ==
    /\ fatal = "" /\ snap.phase \in {"none", "marshalled"}
    /\ zs' = ZSetClearOp(zs)
    /\ cells' = collect(ZSetClearOp(zs), cells)
    /\ abs' = NoAbs
    /\ ret' = NoRet
    /\ snap' = IF snap.phase = "marshalled" THEN [snap EXCEPT !.phase = "cleared"] ELSE snap
    /\ UNCHANGED fatal
    /\ UNCHANGED evars

\* m = Marshal(): the caller keeps the slice; (ghost) with it the ranks and
\* the scores the keys have now
ZSetMarshal ==
    /\ fatal = "" /\ snap.phase = "none"
    /\ snap' = [phase |-> "marshalled", m |-> Marshal(zs, cells),
                card |-> Card(zs),
                ranks |-> [k \in DOMAIN zs.key2Score |-> ZSetRank(zs, cells, k)],
                scores |-> [k \in DOMAIN zs.key2Score |-> cells[zs.key2Score[k]].score]]
    /\ ret' = NoRet
    /\ UNCHANGED <<zs, cells, abs, fatal>>
    /\ UNCHANGED evars

\* Unmarshal(m) of the slice the caller holds
ZSetUnmarshal(rnd) ==
    /\ fatal = "" /\ snap.phase \in {"marshalled", "cleared"}
    /\ zs.pool.counter + Len(snap.m) <= MaxCounter
    /\ fillLevelsPossible(level(zs.sl), zs.sl.MaxLevel, rnd)
    /\ LET r == Unmarshal(zs, cells, snap.m, rnd)
       IN  /\ zs' = r.zs
           /\ cells' = collect(r.zs, r.cells)
           /\ fatal' = r.fatal
           /\ ret' = IF r.fatal = "" THEN [op |-> "ZSet", ok |-> r.ok] ELSE NoRet
           /\ abs' = IF r.fatal = "" THEN absUnmarshal(abs, snap.m) ELSE abs
           /\ snap' = IF r.fatal /= "" THEN snap
                      ELSE IF snap.phase = "cleared"
                           THEN [snap EXCEPT !.phase = "restored"]
                           ELSE NoSnap
    /\ UNCHANGED evars

\* the caller lets go of the slice of a finished round trip
ZSetForget ==
    /\ fatal = "" /\ snap.phase = "restored"
    /\ snap' = NoSnap
    /\ ret' = NoRet
    /\ UNCHANGED <<zs, cells, abs, fatal>>
    /\ UNCHANGED evars

NextZSet ==
    \/ \E key \in AppKeys, score \in Scores, rnd \in 0..DefaultMaxLevel :
          ZSetAdd(key, score, rnd)
    \/ \E key \in AppKeys, score \in Scores, rnd \in 0..DefaultMaxLevel :
          ZSetUpdate(key, score, rnd)
    \/ \E key \in AppKeys : ZSetRemove(key)
    \/ ZSetClear
    \/ ZSetMarshal
    \/ \E rnd \in [1..(IF snap.phase = "none" THEN 0 ELSE Len(snap.m)) -> 0..DefaultMaxLevel] :
          ZSetUnmarshal(rnd)
    \/ ZSetForget

SpecZSet == InitZSet /\ [][NextZSet]_vars

(***************************************************************************)
(* Claims about the sorted set.  abs is the caller's view: the score each  *)
(* live key has, and the live keys in the order they received it.          *)
(***************************************************************************)
Live == {k \in AppKeys : abs.score[k] /= Nil}

\* the place of a live key in abs.order
arrival(k) == CHOOSE i \in 1..Len(abs.order) : abs.order[i] = k

\* the live keys that go before k: a score ordered before k's, or the same
\* score received earlier
Before(k) ==
    {j \in Live :
        \/ applyScoreLessThan(zs.scoreLessThan, abs.score[j], abs.score[k])
        \/ (abs.score[j] = abs.score[k] /\ arrival(j) < arrival(k))}

\* the key of rank r
keyOfRank(r) == CHOOSE k \in DOMAIN zs.key2Score : ZSetRank(zs, cells, k) = r

\* the keys of the set in rank order
ByRank == [r \in 1..Card(zs) |-> keyOfRank(r)]

(* C5: Rank(key) of a live key is 1 plus the number of live keys that have a
   score ordered before its score by scoreLessThan, or an equal score
   received earlier; an Add or Update with the key's current score leaves
   the ranks as they are. *)
RankByScoreThenArrival ==
    fatal = "" =>
        /\ DOMAIN zs.key2Score = Live
        /\ \A k \in Live : ZSetRank(zs, cells, k) = 1 + Cardinality(Before(k))

\* two keys tied on the score, the later arrival being the smaller key, after
\* an Update that returned true
RankByScoreThenArrivalWitness ==
    /\ fatal = "" /\ ret = [op |-> "ZSet", ok |-> TRUE]
    /\ zs.scoreLessThan = "desc"
    /\ Live = {1, 2} /\ abs.score[1] = abs.score[2]
    /\ abs.order = <<2, 1>>
    /\ ZSetRank(zs, cells, 2) = 1 /\ ZSetRank(zs, cells, 1) = 2

(* C6: the map and the engine agree: the engine holds exactly one node per
   key of the map, the node's key is the cell the map stores for the key and
   its value is the key; Card() is the engine's Len() and the number of live
   keys; no key occurs twice in Marshal(). *)
MapEngineAgree ==
    fatal = "" =>
        LET chain == Chain(zs.sl)
            m == Marshal(zs, cells)
        IN  /\ \A k \in DOMAIN zs.key2Score :
                  \E i \in 1..Len(chain) :
                      /\ zs.sl.nodes[chain[i]].value = k
                      /\ zs.sl.nodes[chain[i]].key = zs.key2Score[k]
                      /\ \A j \in 1..Len(chain) :
                            zs.sl.nodes[chain[j]].value = k => j = i
            /\ \A i \in 1..Len(chain) : zs.sl.nodes[chain[i]].value \in DOMAIN zs.key2Score
            /\ DOMAIN zs.sl.nodes = {Header} \cup {chain[i] : i \in 1..Len(chain)}
            /\ Card(zs) = SkipListLen(zs.sl)
            /\ Card(zs) = Cardinality(Live)
            /\ \A i, j \in 1..Len(m) : m[i][1] = m[j][1] => i = j

\* a key is left after a Remove that returned true, and the removed key's
\* cell waits in the pool
MapEngineAgreeWitness ==
    /\ fatal = "" /\ ret = [op |-> "ZSet", ok |-> TRUE]
    /\ Card(zs) = 1 /\ SkipListLen(zs.sl) = 1
    /\ Len(zs.pool.pool) >= 1

\* the ranks RangeByRank is asked for
Ranks == 0..(MaxAppKey + 1)

(* C7: RangeByRank(from, to), from >= 1, returns in rank order the
   (key, score) pairs of the keys of rank from..min(to, Card()), that is
   min(to, Card()) - from + 1 entries; it returns nil when the set is empty
   or from > min(to, Card()). *)
RangeByRankWindow ==
    fatal = "" =>
        \A from \in Ranks \ {0}, to \in Ranks :
            LET hi == IF to > Card(zs) THEN Card(zs) ELSE to
                r == RangeByRank(zs, cells, from, to)
            IN  IF Card(zs) = 0 \/ from > hi THEN r.nil
                ELSE /\ ~r.nil
                     /\ Len(r.elems) = hi - from + 1
                     /\ \A i \in 1..Len(r.elems) :
                           r.elems[i] = <<keyOfRank(from + i - 1),
                                          abs.score[keyOfRank(from + i - 1)]>>

\* two keys: the range 2..3 is cut to the second key, and the range 3..3 is
\* nil
RangeByRankWindowWitness ==
    /\ fatal = "" /\ Card(zs) = 2
    /\ RangeByRank(zs, cells, 2, 3) = SliceOf(<<<<keyOfRank(2), abs.score[keyOfRank(2)]>>>>)
    /\ Len(RangeByRank(zs, cells, 1, 2).elems) = 2
    /\ RangeByRank(zs, cells, 3, 3).nil

\* the scores RangeByScore is asked for
AskedScores == 0..(MaxScore + 1)

\* the keys whose score lies in the interval, in rank order
inInterval(from, to) ==
    LET in(k) == /\ ~applyScoreLessThan(zs.scoreLessThan, abs.score[k], from)
                 /\ ~applyScoreLessThan(zs.scoreLessThan, to, abs.score[k])
    IN  SelectSeq(ByRank, in)

(* C8: RangeByScore(from, to) returns in rank order the live keys whose score
   s satisfies neither scoreLessThan(s, from) nor scoreLessThan(to, s), the
   keys tied at from or at to included, while every live counter is below
   MaxInt64; the result is empty when no score lies in the interval. *)
RangeByScoreInclusive ==
    (fatal = "" /\ \A k \in DOMAIN zs.key2Score : cells[zs.key2Score[k]].counter < MaxInt64) =>
        \A from \in AskedScores, to \in AskedScores :
            RangeByScore(zs, cells, from, to) = inInterval(from, to)

\* two keys tied at a score: the interval that is this one score holds both,
\* and an interval beside it is empty
RangeByScoreInclusiveWitness ==
    /\ fatal = "" /\ Live = {1, 2}
    /\ abs.score[1] = abs.score[2]
    /\ Len(RangeByScore(zs, cells, abs.score[1], abs.score[1])) = 2
    /\ RangeByScore(zs, cells, 0, 0) = <<>>

(* C9: m = Marshal(), Clear(), Unmarshal(m) does not panic, and after it
   Card() is what it was and every key has the Rank and the Score it had at
   Marshal; Marshal() lists the (key, score) pairs in ascending rank order. *)
MarshalRoundTrip ==
    /\ snap.phase = "cleared" => fatal = ""
    /\ fatal = "" =>
          LET m == Marshal(zs, cells)
          IN  /\ Len(m) = Card(zs)
              /\ \A i \in 1..Len(m) :
                    /\ m[i][1] \in DOMAIN zs.key2Score
                    /\ ZSetRank(zs, cells, m[i][1]) = i
                    /\ m[i][2] = Score(zs, cells, m[i][1])
    /\ (fatal = "" /\ snap.phase = "restored") =>
          /\ ret = [op |-> "ZSet", ok |-> TRUE]
          /\ Card(zs) = snap.card
          /\ DOMAIN zs.key2Score = DOMAIN snap.ranks
          /\ \A k \in DOMAIN snap.ranks :
                /\ ZSetRank(zs, cells, k) = snap.ranks[k]
                /\ Score(zs, cells, k) = snap.scores[k]

\* a round trip of two keys tied on the score has been made
MarshalRoundTripWitness ==
    /\ fatal = "" /\ snap.phase = "restored"
    /\ snap.card = 2 /\ Card(zs) = 2
    /\ Score(zs, cells, 1) = Score(zs, cells, 2)
    /\ ZSetRank(zs, cells, 2) = 1

(***************************************************************************)
(* Claims about plain cursors and single calls of the engine.              *)
(***************************************************************************)
\* the keys of the level-0 chain, in order
ChainKeys(s) == [j \in 1..Len(Chain(s)) |-> s.nodes[Chain(s)[j]].key]

\* the results of n calls of Next on the cursor i, in order
RECURSIVE nextTimes(_, _, _)
nextTimes(nodes, i, n) ==
    IF n <= 0 THEN <<>>
    ELSE LET r == iterNext(nodes, i)
         IN  <<r>> \o nextTimes(nodes, r.it, n - 1)

\* the results of n calls of Previous on the cursor i, in order
RECURSIVE previousTimes(_, _, _)
previousTimes(nodes, i, n) ==
    IF n <= 0 THEN <<>>
    ELSE LET r == iterPrevious(nodes, i)
         IN  <<r>> \o previousTimes(nodes, r.it, n - 1)

\* the cursor after the calls whose results are rs, i when there was no call
after(i, rs) == IF Len(rs) = 0 THEN i ELSE rs[Len(rs)].it

(* C11: on a non-empty list a cursor from SeekToFirst driven by Next Len()-1
   times, each returning true, visits the live keys in ascending order, and
   one more Next returns false without moving; then Previous Len()-1 times,
   each returning true, visits the same keys in reverse and ends on the
   first key, and one more Previous returns false without moving. *)
CursorThereAndBack ==
    (fatal = "" /\ SkipListLen(sl) > 0) =>
        LET n    == SkipListLen(sl)
            ks   == ChainKeys(sl)
            f    == SeekToFirst(sl)
            fw   == nextTimes(sl.nodes, f, n - 1)
            last == after(f, fw)
            bw   == previousTimes(sl.nodes, last, n - 1)
            end  == after(last, bw)
        IN  /\ Len(ks) = n
            /\ {ks[j] : j \in 1..n} = Present
            /\ \A j \in 1..(n - 1) : ks[j] < ks[j + 1]
            /\ f.key = ks[1]
            /\ \A j \in 1..(n - 1) : fw[j].ok /\ fw[j].it.key = ks[j + 1]
            /\ iterNext(sl.nodes, last) = [ok |-> FALSE, it |-> last]
            /\ \A j \in 1..(n - 1) : bw[j].ok /\ bw[j].it.key = ks[n - j]
            /\ end.key = ks[1] /\ end = f
            /\ iterPrevious(sl.nodes, end) = [ok |-> FALSE, it |-> end]

\* three keys on more than one level: the walk there reaches the last key
\* and the walk back the first
CursorThereAndBackWitness ==
    /\ fatal = "" /\ SkipListLen(sl) = 3 /\ level(sl) >= 1
    /\ after(SeekToFirst(sl), nextTimes(sl.nodes, SeekToFirst(sl), 2)) = SeekToLast(sl)
    /\ after(SeekToLast(sl), previousTimes(sl.nodes, SeekToLast(sl), 2)) = SeekToFirst(sl)

\* the node of the level-0 chain that holds key k
nodeOf(s, k) == CHOOSE n \in DOMAIN s.nodes \ {Header} : s.nodes[n].key = k

(* C12: Set(k, v) on a present key k changes the value of k's node and
   nothing else of the list (length, chain, levels, forward pointers, spans,
   header, footer, back-pointers), whatever level randomLevel would return;
   the same Set once more leaves the list as the first left it. *)
SetPresentOnlyValue ==
    fatal = "" =>
        \A k \in Present, v \in Vals, rnd \in 0..DefaultMaxLevel :
            LET r == SetOp(IntCx, sl, k, v, rnd)
            IN  /\ r.fatal = ""
                /\ r.s = [sl EXCEPT !.nodes[nodeOf(sl, k)].value = v]
                /\ \A rnd2 \in 0..DefaultMaxLevel :
                      SetOp(IntCx, r.s, k, v, rnd2) = r

\* two keys on more than one level, one of them with a value that a Set of
\* the other value overwrites
SetPresentOnlyValueWitness ==
    /\ fatal = "" /\ SkipListLen(sl) >= 2 /\ level(sl) >= 1
    /\ \E k \in Present, v \in Vals :
          /\ amap[k] /= v
          /\ SetOp(IntCx, sl, k, v, 0).s /= sl
          /\ SetOp(IntCx, sl, k, v, 0).s.length = sl.length
          /\ Get(IntCx, SetOp(IntCx, sl, k, v, 0).s, k) = [value |-> v, ok |-> TRUE]

(***************************************************************************)
(* The engine under the comparator by halves: the caller sets keys and     *)
(* clears.  amap holds, for the least key of each class of equivalent      *)
(* keys, the value last Set under a key of the class; ret holds the key    *)
(* and value of the last Set and the key of the Set before it.  The list   *)
(* is kept to MaxKey nodes.                                                *)
(***************************************************************************)
\* the least key equivalent to k
classOf(k) == CHOOSE j \in Keys :
    /\ ~lessThan(HalfCx, j, k) /\ ~lessThan(HalfCx, k, j)
    /\ \A i \in Keys : (~lessThan(HalfCx, i, k) /\ ~lessThan(HalfCx, k, i)) => j <= i

SetCustom(key, value, rnd) ==
    /\ fatal = "" /\ it = NoIter
    /\ rnd \in randomLevels(sl)
    /\ LET r == SetOp(HalfCx, sl, key, value, rnd)
       IN  /\ r.s.length <= MaxKey
           /\ sl' = r.s
           /\ fatal' = r.fatal
    /\ amap' = [amap EXCEPT ![classOf(key)] = value]
    /\ ret' = [op |-> "Set", key |-> key, value |-> value,
               prev |-> IF ret.op = "Set" THEN ret.key ELSE Nil]
    /\ UNCHANGED it
    /\ UNCHANGED zvars

NextCustom ==
    \/ \E key \in Keys, value \in Vals, rnd \in 0..DefaultMaxLevel :
          SetCustom(key, value, rnd)
    \/ Clear

SpecCustom == Init /\ [][NextCustom]_vars

(* C16: keys match by the comparator: after Set(a, v1) and Set(b, v2) with
   neither a less than b nor b less than a, the list holds one node for the
   two, Get(a) and Get(b) both return (v2, true), and the level-0 keys are
   strictly increasing. *)
MatchByComparator ==
    (/\ fatal = "" /\ ret.op = "Set" /\ ret.prev /= Nil
     /\ ~lessThan(HalfCx, ret.prev, ret.key) /\ ~lessThan(HalfCx, ret.key, ret.prev)) =>
        /\ SkipListLen(sl) = Cardinality(Present)
        /\ Get(HalfCx, sl, ret.prev) = [value |-> ret.value, ok |-> TRUE]
        /\ Get(HalfCx, sl, ret.key) = [value |-> ret.value, ok |-> TRUE]
        /\ \A i, j \in 1..Len(Chain(sl)) :
              i < j => lessThan(HalfCx, sl.nodes[Chain(sl)[i]].key, sl.nodes[Chain(sl)[j]].key)

\* the same, as long as no two equivalent keys have been Set
MatchByIdentity ==
    (fatal = "" /\ \A i, j \in 1..Len(Chain(sl)) :
                      i /= j => classOf(sl.nodes[Chain(sl)[i]].key) /=
                                classOf(sl.nodes[Chain(sl)[j]].key)) =>
        /\ SkipListLen(sl) = Cardinality(Present)
        /\ \A i, j \in 1..Len(Chain(sl)) :
              i < j => lessThan(HalfCx, sl.nodes[Chain(sl)[i]].key, sl.nodes[Chain(sl)[j]].key)

(* C15: for every MaxLevel >= 0 and whatever levels randomLevel returns,
   Delete of a non-nil key returns (value, true) or (nil, false); of the
   panics of Set and Delete only the one for a nil key occurs. *)
DeleteCompletes ==
    /\ (ret.op = "Delete" /\ ret.key /= Nil) =>
          /\ ret.returned
          /\ (ret.ok /\ ret.value /= Nil) \/ (~ret.ok /\ ret.value = Nil)
    /\ fatal /= "runtime error: makeslice: cap out of range"

(***************************************************************************)
(* The sorted set asked for scores: the caller adds, removes and clears,   *)
(* and asks for the score of any key.                                      *)
(***************************************************************************)
ZSetScore(key) ==
    /\ fatal = "" /\ snap = NoSnap
    /\ LET r == ScoreOp(zs, cells, key)
       IN  /\ fatal' = r.fatal
           /\ ret' = IF r.fatal = "" THEN [op |-> "Score", key |-> key, value |-> r.value]
                     ELSE NoRet
    /\ UNCHANGED <<zs, cells, snap, abs>>
    /\ UNCHANGED evars

NextZSetScore ==
    \/ \E key \in AppKeys, score \in Scores, rnd \in 0..DefaultMaxLevel :
          ZSetAdd(key, score, rnd)
    \/ \E key \in AppKeys : ZSetRemove(key)
    \/ ZSetClear
    \/ \E key \in AppKeys : ZSetScore(key)

SpecZSetScore == InitZSet /\ [][NextZSetScore]_vars

(* C14: Score(key) returns the current score of a live key, and for a key
   that is not live (never added, removed, cleared) it returns without a
   panic. *)
ScoreOrAbsent ==
    /\ fatal /= "runtime error: invalid memory address or nil pointer dereference"
    /\ ret.op = "Score" =>
          ret.value = IF ret.key \in Live THEN abs.score[ret.key] ELSE Nil

\* the same, for the calls that return
ScoreOfLiveKey ==
    ret.op = "Score" => (ret.key \in Live /\ ret.value = abs.score[ret.key])

(***************************************************************************)
(* Claims about single calls of the sorted set.                            *)
(***************************************************************************)
\* the call returned false and the map, the engine, the pool and the cells
\* are as they were
returnedFalseNoChange ==
    /\ fatal' = "" /\ ret' = [op |-> "ZSet", ok |-> FALSE]
    /\ zs' = zs /\ cells' = cells

\* what Update(key, s) is to leave behind
updateDone(key, s) ==
    IF key \notin DOMAIN zs.key2Score THEN returnedFalseNoChange
    ELSE IF Score(zs, cells, key) = s
    THEN /\ fatal' = "" /\ ret' = [op |-> "ZSet", ok |-> TRUE]
         /\ zs' = zs /\ cells' = cells
    ELSE /\ fatal' = "" /\ ret' = [op |-> "ZSet", ok |-> TRUE]
         /\ Score(zs', cells', key) = s
         /\ Card(zs') = Card(zs)
         /\ \A j \in DOMAIN zs'.key2Score \ {key} :
               Score(zs', cells', j) = s =>
                  ZSetRank(zs', cells', j) < ZSetRank(zs', cells', key)

(* C13: Update(key, s) of an absent key returns false and changes nothing;
   of a present key with score s it returns true and changes no Rank, Score
   or tiebreaker; of a present key with another score it returns true, and
   then Score(key) = s, Card() is as before and key ranks after every other
   live key of score s.  Remove(key) of an absent key returns false and
   changes nothing. *)
UpdateContract ==
    [][/\ \A key \in AppKeys, s \in Scores, rnd \in 0..DefaultMaxLevel :
             ZSetUpdate(key, s, rnd) => updateDone(key, s)
       /\ \A key \in AppKeys :
             (ZSetRemove(key) /\ key \notin DOMAIN zs.key2Score) => returnedFalseNoChange
      ]_vars

\* the same, for the calls that return
UpdateContractWhenReturned ==
    [][/\ \A key \in AppKeys, s \in Scores, rnd \in 0..DefaultMaxLevel :
             (ZSetUpdate(key, s, rnd) /\ fatal' = "") => updateDone(key, s)
       /\ \A key \in AppKeys :
             (ZSetRemove(key) /\ key \notin DOMAIN zs.key2Score) => returnedFalseNoChange
      ]_vars

\* whether elements is not strictly ascending by the comparator
unsortedSlice(cx, elements) ==
    \E j \in 2..Len(elements) : ~lessThan(cx, elements[j - 1][1], elements[j][1])

\* the slices tried in a state: all of FillInputs on an empty list; on a
\* list that is not empty, where the call panics before it reads its
\* argument, those of one element at most
FillTried == IF sl.length = 0 THEN FillInputs ELSE {e \in FillInputs : Len(e) <= 1}

(* C17: FillBySortedSlice(seq) panics if and only if the list is not empty
   at the call or some element of seq is not greater than the element
   before it; otherwise it returns true and Len() is the length of seq. *)
FillPanicsIff ==
    fatal = "" =>
        \A elements \in FillTried :
            \A rnd \in [1..Len(elements) -> 0..DefaultMaxLevel] :
                fillLevelsPossible(level(sl), sl.MaxLevel, rnd) =>
                    LET r == FillBySortedSliceOp(IntCx, sl, elements, rnd)
                        bad == SkipListLen(sl) /= 0 \/ unsortedSlice(IntCx, elements)
                    IN  /\ (r.fatal /= "") = bad
                        /\ ~bad => (r.ok /\ SkipListLen(r.s) = Len(elements))

\* a fill of MaxFill elements has returned true
FillPanicsIffWitness ==
    /\ fatal = "" /\ ret = [op |-> "FillBySortedSlice", ok |-> TRUE]
    /\ SkipListLen(sl) = MaxFill /\ level(sl) >= 1

\* the keys a cursor is asked to seek
SeekKeys == 0..(MaxKey + 1)

\* the positions of a plain cursor: the header, where Iterator() puts it, and
\* every live node
Positions(s) ==
    {Iterator(s)} \cup {iterAt(s.nodes, Chain(s)[j]) : j \in 1..Len(Chain(s))}

(* C18: for a plain cursor at the header or on any live node, and any key k,
   Seek(k) returns true and puts the cursor on the first live node with
   key >= k, the node SkipList.Seek(k) yields; it returns false and leaves
   the cursor where it was if and only if no live key is >= k. *)
SeekFromAnywhere ==
    fatal = "" =>
        \A i \in Positions(sl), k \in SeekKeys :
            LET r    == iterSeek(IntCx, sl, sl.nodes, i, k)
                want == SkipListSeek(IntCx, sl, k)
                ge   == {j \in Present : j >= k}
            IN  IF ge = {} THEN want = NilIterator /\ r = [ok |-> FALSE, it |-> i]
                ELSE /\ want /= NilIterator
                     /\ r = [ok |-> TRUE, it |-> want]
                     /\ want.key \in ge /\ \A j \in ge : want.key <= j

\* three keys on more than one level: from the last key Seek goes back to the
\* first, and from the second key Seek of that key stays
SeekFromAnywhereWitness ==
    /\ fatal = "" /\ SkipListLen(sl) = 3 /\ level(sl) >= 1
    /\ iterSeek(IntCx, sl, sl.nodes, SeekToLast(sl), 0) = [ok |-> TRUE, it |-> SeekToFirst(sl)]
    /\ LET second == iterAt(sl.nodes, Chain(sl)[2])
       IN  iterSeek(IntCx, sl, sl.nodes, second, second.key) = [ok |-> TRUE, it |-> second]
    /\ ~iterSeek(IntCx, sl, sl.nodes, SeekToFirst(sl), MaxKey + 1).ok

\* Seek(k) on the range cursor the caller holds
seekHeld(k) == rangeSeek(IntCx, sl, heapOf(sl, it), it, k)

(* C19: on a cursor from Range(lower, upper), Seek(k) returns false and
   leaves the cursor unchanged when k < lower or k >= upper; when
   lower <= k < upper and some live key lies in [k, upper), it returns true
   and puts the cursor on the least live key >= k, on a fresh cursor too. *)
RangeSeekLands ==
    (fatal = "" /\ it.kind = "range") =>
        \A k \in SeekKeys :
            LET in == {j \in Present : j >= k /\ j < it.upperLimit}
            IN  IF k < it.lowerLimit \/ k >= it.upperLimit
                THEN seekHeld(k) = [ok |-> FALSE, it |-> it]
                ELSE in /= {} =>
                        /\ seekHeld(k).ok
                        /\ seekHeld(k).it.key \in in
                        /\ \A j \in in : seekHeld(k).it.key <= j

\* the part on keys outside the limits
RangeSeekOutsideRefused ==
    (fatal = "" /\ it.kind = "range") =>
        \A k \in SeekKeys :
            (k < it.lowerLimit \/ k >= it.upperLimit) =>
                seekHeld(k) = [ok |-> FALSE, it |-> it]

\* the number of level-0 steps from the header to node n of the chain
place(s, n) ==
    IF n = Header THEN 0 ELSE CHOOSE j \in 1..Len(Chain(s)) : Chain(s)[j] = n

\* the nodes reached from n along level i, n included
RECURSIVE levelChain(_, _, _, _)
levelChain(nodes, n, i, fuel) ==
    IF n = Nil \/ fuel = 0 THEN <<>>
    ELSE <<n>> \o levelChain(nodes, nodes[n].levels[i].forward, i, fuel - 1)

RECURSIVE sumSpans(_, _, _)
sumSpans(nodes, ns, i) ==
    IF Len(ns) = 0 THEN 0
    ELSE nodes[Head(ns)].levels[i].span + sumSpans(nodes, Tail(ns), i)

(* C20: for the header and every live node n and every level i of n: a
   non-nil n.levels[i].forward is the node exactly n.levels[i].span level-0
   steps after n, and with a nil forward the span is the number of nodes
   after n; the spans along each live level from the header sum to Len(). *)
SpansAreDistances ==
    fatal = "" =>
        /\ DOMAIN sl.nodes = {Header} \cup {Chain(sl)[j] : j \in 1..Len(Chain(sl))}
        /\ Len(Chain(sl)) = SkipListLen(sl)
        /\ \A n \in DOMAIN sl.nodes : \A i \in DOMAIN sl.nodes[n].levels :
              LET l == sl.nodes[n].levels[i]
              IN  IF l.forward /= Nil
                  THEN /\ l.forward \in DOMAIN sl.nodes \ {Header}
                       /\ i \in DOMAIN sl.nodes[l.forward].levels
                       /\ l.span >= 1
                       /\ place(sl, l.forward) = place(sl, n) + l.span
                  ELSE l.span = SkipListLen(sl) - place(sl, n)
        /\ \A i \in 0..level(sl) :
              sumSpans(sl.nodes, levelChain(sl.nodes, Header, i, len(sl.nodes)), i)
                 = SkipListLen(sl)

\* after a Delete: two keys, the first on a level the second is not on, so
\* that a level ends before the end of the list
SpansAreDistancesWitness ==
    /\ fatal = "" /\ ret.op = "Delete" /\ ret.ok
    /\ SkipListLen(sl) = 2
    /\ \E n \in DOMAIN sl.nodes \ {Header} :
          /\ len(sl.nodes[n].levels) > 1
          /\ sl.nodes[n].levels[1].forward = Nil
          /\ sl.nodes[n].levels[1].span = 1

(***************************************************************************)
(* The bottom level as a doubly-linked list.                               *)
(***************************************************************************)
\* the nodes reached from n by following backward, n included
RECURSIVE backFrom(_, _, _)
backFrom(nodes, n, fuel) ==
    IF n = Nil \/ fuel = 0 THEN <<>>
    ELSE <<n>> \o backFrom(nodes, previous(nodes, n), fuel - 1)

reversed(seq) == [j \in 1..Len(seq) |-> seq[Len(seq) + 1 - j]]

(* C21: in every state of the engine, footer is nil iff Len() = 0 and
   otherwise is the last node of the level-0 chain, which holds the greatest
   key; the walk along backward from footer visits exactly the level-0 chain
   in reverse; and the backward of the first node is nil, not the header. *)
BottomLevelDoublyLinked ==
    LET c == Chain(sl)
    IN  /\ (sl.footer = Nil) <=> (SkipListLen(sl) = 0)
        /\ Len(c) = SkipListLen(sl)
        /\ Len(c) > 0 =>
              /\ sl.footer = c[Len(c)]
              /\ \A n \in DOMAIN sl.nodes \ {Header, sl.footer} :
                    lessThan(IntCx, sl.nodes[n].key, sl.nodes[sl.footer].key)
              /\ sl.nodes[c[1]].backward = Nil
        /\ backFrom(sl.nodes, sl.footer, len(sl.nodes) + 1) = reversed(c)

\* a Delete has removed the last node and left two nodes or more
BottomLevelDoublyLinkedWitness ==
    /\ fatal = "" /\ ret.op = "Delete" /\ ret.ok
    /\ SkipListLen(sl) >= 2
    /\ \A k \in Present : k < ret.key

(***************************************************************************)
(* FillBySortedSlice against a run of Sets.                                *)
(***************************************************************************)
\* s after Set(elements[j][1], elements[j][2]) for j = 1, 2, ..., where
\* rnd[j] is the level randomLevel returns in the j-th call
RECURSIVE setsFrom(_, _, _)
setsFrom(s, elements, rnd) ==
    IF Len(elements) = 0 THEN s
    ELSE setsFrom(SetOp(IntCx, s, Head(elements)[1], Head(elements)[2], Head(rnd)).s,
                  Tail(elements), Tail(rnd))

\* the pairs a cursor yields when driven by Next until it returns false
RECURSIVE forwardPairs(_, _, _)
forwardPairs(nodes, i, fuel) ==
    LET r == iterNext(nodes, i)
    IN  IF ~r.ok \/ fuel = 0 THEN <<>>
        ELSE <<<<r.it.key, r.it.value>>>> \o forwardPairs(nodes, r.it, fuel - 1)

\* the pairs a cursor yields when driven by Previous until it returns false
RECURSIVE backwardPairs(_, _, _)
backwardPairs(nodes, i, fuel) ==
    LET r == iterPrevious(nodes, i)
    IN  IF ~r.ok \/ fuel = 0 THEN <<>>
        ELSE <<<<r.it.key, r.it.value>>>> \o backwardPairs(nodes, r.it, fuel - 1)

\* what a caller can see of s: Len(), Get and Rank of every key, the
\* iteration from a fresh Iterator forwards and from SeekToLast backwards
observe(s) ==
    [len      |-> SkipListLen(s),
     get      |-> [k \in Keys |-> Get(IntCx, s, k)],
     rank     |-> [k \in Keys |-> Rank(IntCx, s, k)],
     forward  |-> forwardPairs(s.nodes, Iterator(s), len(s.nodes)),
     backward |-> LET last == SeekToLast(s)
                  IN  IF last = NilIterator THEN <<>>
                      ELSE <<<<last.key, last.value>>>>
                           \o backwardPairs(s.nodes, last, len(s.nodes))]

\* the order, span, footer and back-pointer invariants of a list s
wellFormed(s) ==
    LET c == Chain(s)
    IN  /\ Len(c) = SkipListLen(s)
        /\ DOMAIN s.nodes = {Header} \cup {c[j] : j \in 1..Len(c)}
        /\ \A i, j \in 1..Len(c) :
              i < j => lessThan(IntCx, s.nodes[c[i]].key, s.nodes[c[j]].key)
        /\ \A n \in DOMAIN s.nodes : \A i \in DOMAIN s.nodes[n].levels :
              LET l == s.nodes[n].levels[i]
              IN  IF l.forward /= Nil
                  THEN /\ l.forward \in DOMAIN s.nodes \ {Header}
                       /\ i \in DOMAIN s.nodes[l.forward].levels
                       /\ place(s, l.forward) = place(s, n) + l.span
                  ELSE l.span = SkipListLen(s) - place(s, n)
        /\ (s.footer = Nil) <=> (SkipListLen(s) = 0)
        /\ Len(c) > 0 => (s.footer = c[Len(c)] /\ s.nodes[c[1]].backward = Nil)
        /\ backFrom(s.nodes, s.footer, len(s.nodes) + 1) = reversed(c)

\* the strictly ascending slices
AscendingInputs == {e \in FillInputs : ~unsortedSlice(IntCx, e)}

\* the empty list configured as s is
emptied(s) == [NewCustomMap EXCEPT !.MaxLevel = s.MaxLevel]

\* the elements of the abstract map, in ascending order of the keys
RECURSIVE elementsFrom(_)
elementsFrom(k) ==
    IF k > MaxKey THEN <<>>
    ELSE (IF amap[k] /= Nil THEN <<<<k, amap[k]>>>> ELSE <<>>) \o elementsFrom(k + 1)

(* C22: for every strictly ascending seq and any random levels,
   FillBySortedSlice(seq) on an empty list gives a list that satisfies the
   order, span, footer and back-pointer invariants and that shows the same
   Len(), Get and Rank of every key and the same forward and backward
   iteration as an empty list on which Set was called for each element of
   seq in order, whatever the random levels of the Sets.  The calls are
   applied to each empty list once, in the states SetMaxLevel and Clear
   leave. *)
FillAsSets ==
    /\ (fatal = "" /\ SkipListLen(sl) = 0 /\ ret = NoRet) =>
          \A elements \in AscendingInputs :
              LET zeros == [j \in 1..Len(elements) |-> 0]
                  seen  == observe(setsFrom(sl, elements, zeros))
              IN  \A rnd \in [1..Len(elements) -> 0..DefaultMaxLevel] :
                      fillLevelsPossible(level(sl), sl.MaxLevel, rnd) =>
                          LET f == FillBySortedSliceOp(IntCx, sl, elements, rnd)
                              g == setsFrom(sl, elements, rnd)
                          IN  /\ f.fatal = "" /\ f.ok
                              /\ wellFormed(f.s)
                              /\ wellFormed(g)
                              /\ observe(f.s) = seen
                              /\ observe(g) = seen
    /\ (fatal = "" /\ ret.op = "FillBySortedSlice") =>
          /\ wellFormed(sl)
          /\ \A rnd \in [1..SkipListLen(sl) -> 0..DefaultMaxLevel] :
                fillLevelsPossible(0, sl.MaxLevel, rnd) =>
                    observe(sl) = observe(setsFrom(emptied(sl), elementsFrom(1), rnd))

\* a fill has returned a list of MaxFill nodes whose first node is on a
\* level that the last is not on
FillAsSetsWitness ==
    /\ fatal = "" /\ ret.op = "FillBySortedSlice" /\ ret.ok
    /\ SkipListLen(sl) = MaxFill
    /\ len(sl.nodes[Chain(sl)[1]].levels) > len(sl.nodes[sl.footer].levels)

(***************************************************************************)
(* The cells of the sorted set and their pool.                             *)
(***************************************************************************)
\* the cells in use: those the map points to and the keys of the nodes
liveCells(z) ==
    {z.key2Score[k] : k \in DOMAIN z.key2Score}
    \cup {z.sl.nodes[n].key : n \in DOMAIN z.sl.nodes \ {Header}}

\* every live cell's tiebreaker lies in 1..p.counter and no two live cells
\* have the same
tiebreakersDistinct(z, mem) ==
    /\ \A c \in liveCells(z) :
          c \in DOMAIN mem /\ mem[c].counter >= 1 /\ mem[c].counter <= z.pool.counter
    /\ \A c, d \in liveCells(z) : c /= d => mem[c].counter /= mem[d].counter

\* the calls of pool.Get in Add(key, score) and in Update(key, score)
acquiredByAdd(z, mem, key, score, r) ==
    IF key \notin DOMAIN z.key2Score THEN 1
    ELSE IF score /= mem[z.key2Score[key]].score /\ r.fatal = "" THEN 1 ELSE 0

acquiredByUpdate(z, mem, key, score, r) ==
    IF key \in DOMAIN z.key2Score /\ score /= mem[z.key2Score[key]].score /\ r.fatal = ""
    THEN 1 ELSE 0

\* the slices Unmarshal is tried with: any keys and scores in any order; on
\* a set that is not empty, where the fill panics before it reads the
\* slice, those of one element at most
UnmarshalTried ==
    UNION {[1..n -> AppKeys \X Scores] :
              n \in 0..(IF zs.sl.length = 0 THEN MaxFill ELSE 1)}

(* C23: across Add, Update, Remove, Clear and Unmarshal the pool counter
   never decreases and grows by exactly 1 with each cell acquired (Clear
   leaves it as it is); every live cell's tiebreaker is at least 1 and at
   most the pool counter; and the tiebreakers of the live cells are pairwise
   distinct, also when cells come back from the pool. *)
TiebreakersDistinct ==
    fatal = "" =>
        /\ tiebreakersDistinct(zs, cells)
        /\ \A score \in Scores :
              LET g == poolGet(zs.pool, cells, score)
              IN  /\ g.pool.counter = zs.pool.counter + 1
                  /\ g.cells[g.cell] = [score |-> score, counter |-> g.pool.counter]
        /\ \A key \in AppKeys, score \in Scores, rnd \in randomLevels(zs.sl) :
              /\ LET r == ZSetAddOp(zs, cells, key, score, rnd)
                 IN  /\ r.zs.pool.counter
                           = zs.pool.counter + acquiredByAdd(zs, cells, key, score, r)
                     /\ tiebreakersDistinct(r.zs, r.cells)
              /\ LET r == ZSetUpdateOp(zs, cells, key, score, rnd)
                 IN  /\ r.zs.pool.counter
                           = zs.pool.counter + acquiredByUpdate(zs, cells, key, score, r)
                     /\ tiebreakersDistinct(r.zs, r.cells)
        /\ \A key \in AppKeys :
              LET r == ZSetRemoveOp(zs, cells, key)
              IN  /\ r.zs.pool.counter = zs.pool.counter
                  /\ tiebreakersDistinct(r.zs, r.cells)
        /\ ZSetClearOp(zs).pool.counter = zs.pool.counter
        /\ tiebreakersDistinct(ZSetClearOp(zs), cells)
        /\ \A elements \in UnmarshalTried :
              \A rnd \in [1..Len(elements) -> 0..DefaultMaxLevel] :
                  fillLevelsPossible(level(zs.sl), zs.sl.MaxLevel, rnd) =>
                      LET r == Unmarshal(zs, cells, elements, rnd)
                      IN  /\ r.zs.pool.counter = zs.pool.counter + Len(elements)
                          /\ tiebreakersDistinct(r.zs, r.cells)

\* after three acquisitions or more, a cell waits in the pool (the next
\* acquisition takes it from there) beside a live cell, acquired last
TiebreakersDistinctWitness ==
    /\ fatal = ""
    /\ zs.pool.counter >= 3
    /\ Len(zs.pool.pool) >= 1
    /\ DOMAIN zs.key2Score /= AppKeys
    /\ \E c \in liveCells(zs) : cells[c].counter = zs.pool.counter

\* the greatest level index of the live nodes of a list that is not empty
topLevel(s) ==
    CHOOSE i \in 0..level(s) + DefaultMaxLevel :
        /\ \E n \in DOMAIN s.nodes \ {Header} : len(s.nodes[n].levels) - 1 = i
        /\ \A n \in DOMAIN s.nodes \ {Header} : len(s.nodes[n].levels) - 1 <= i

(* C24: in every state reached by Set, Delete, Clear and FillBySortedSlice
   calls that returned, the header has one level more than the greatest
   level index of the live nodes, and exactly one level when the list is
   empty. *)
HeaderLevels ==
    fatal = "" =>
        /\ DOMAIN sl.nodes \ {Header} = {} <=> SkipListLen(sl) = 0
        /\ len(sl.nodes[Header].levels) =
              IF SkipListLen(sl) = 0 THEN 1 ELSE topLevel(sl) + 1

\* a Delete has left nodes of level 0 only, under a MaxLevel with which
\* the deleted node may have been the only one of level DefaultMaxLevel
HeaderLevelsWitness ==
    /\ fatal = "" /\ ret.op = "Delete" /\ ret.ok
    /\ sl.MaxLevel > DefaultMaxLevel
    /\ SkipListLen(sl) >= 2
    /\ level(sl) = 0

\* a pool in which n cells wait: the cells 1..n
poolOf(n) == [pool |-> [j \in 1..n |-> j], counter |-> n]

\* Put on a pool of any size up to the capacity leaves a pool within the
\* capacity, and drops the cell when the pool is full
PutWithinCap ==
    \A n \in 0..PoolCap :
        LET q == poolPut(poolOf(n), n + 1)
        IN  /\ Len(q.pool) <= PoolCap
            /\ Len(q.pool) = IF n < PoolCap THEN n + 1 ELSE n

(* C25: in every state of the sorted set reached by Add, Update, Remove and
   Clear, no cell waiting in the pool is pointed to by the map or is the key
   of a live node, no two live application keys have the same cell, and the
   pool holds 128 cells at most; so the acquisition of a cell, which
   overwrites the score and the tiebreaker of a cell from the pool, changes
   no cell that is the key of a node of the engine. *)
PoolCellsNotInUse ==
    fatal = "" =>
        /\ \A j \in 1..Len(zs.pool.pool) : zs.pool.pool[j] \notin liveCells(zs)
        /\ \A k1, k2 \in DOMAIN zs.key2Score :
              k1 /= k2 => zs.key2Score[k1] /= zs.key2Score[k2]
        /\ Len(zs.pool.pool) <= PoolCap
        /\ PutWithinCap
        /\ \A score \in Scores :
              LET g == poolGet(zs.pool, cells, score)
              IN  /\ g.cell \notin liveCells(zs)
                  /\ \A c \in liveCells(zs) : g.cells[c] = cells[c]

\* a cell waits in the pool beside a live cell that was allocated before it
\* and written after it: the live cell has been through the pool
PoolCellsNotInUseWitness ==
    /\ fatal = ""
    /\ \E c \in liveCells(zs) : \E j \in 1..Len(zs.pool.pool) :
          /\ c < zs.pool.pool[j]
          /\ cells[c].counter > cells[zs.pool.pool[j]].counter

=============================================================================
